---- MODULE Spec2Model ----
(***************************************************************************)
(* A model of the cli-oauth command line client: provider metadata         *)
(* discovery (openid-discovery.ts), the token store (auth-storage.ts),     *)
(* the authorization-code flow with its one-shot callback listener         *)
(* (oauth.ts), dynamic client registration (client-registration.ts), the   *)
(* credentials and the outcome of the login commands, and the task API     *)
(* the client talks to (packages/api).                                     *)
(***************************************************************************)
EXTENDS Integers, Sequences, FiniteSets, TLC

VARIABLES
    \* ---- process clock (Date.now(), in milliseconds)
    now,
    \* ---- openid-discovery.ts
    configCache,    \* the Map domain -> [config, timestamp]
    discReturn,     \* <<>> or <<r>>: the outcome of the last discoverOpenIDConfiguration call
    \* ---- auth-storage.ts
    tokenFile,      \* <<>> (no record) or <<record>>: the record tokens.json holds
    tokenDamage,    \* "none" | "unreadable" | "corrupt": tokens.json exists but holds no record
    loadReturn,     \* <<>> or <<r>>: the outcome of the last loadToken call
    clearReturn,    \* <<>> or <<r>>: the outcome of the last clearToken call
    \* ---- client-registration.ts and the login commands
    env,            \* process.env: CLERK_OAUTH_CLIENT_ID, CLERK_OAUTH_CLIENT_SECRET
    clientsFile,    \* clients.json: [kind, data], data the map domain -> registration
    clientReturn,   \* <<>> or <<r>>: the outcome of the last loadClientData call
    regRequests,    \* sequence of the POSTs sent to registration endpoints
    provisioned,    \* <<>> or <<r>>: the outcome of the last credential resolution
    loginReport,    \* "" | "success" | "failed": what the login command printed
    earlier,        \* the server, promise and timer of each earlier login of the process
    \* ---- packages/api: the task API server
    tasks,          \* the table tasks of tasks.db: task id -> row
    apiReturn,      \* <<>> or <<r>>: the last request the server answered, and its response
    \* ---- oauth.ts, startOAuthFlow and waitForCallback
    pc,             \* position of startOAuthFlow
    options,        \* the OAuthOptions of the attempt
    config,         \* the metadata startOAuthFlow resolved
    state,          \* the anti-forgery state issued for the attempt
    usePKCE,
    codeVerifier,
    codeChallenge,
    authUrl,        \* <<>> or <<params>>: the authorization URL built
    browserOpened,  \* open(authUrl) has been called
    listener,       \* "unbound" | "bound" | "stopped": the Bun server of waitForCallback
    boundPort,      \* the port Bun.serve was given
    promise,        \* the promise waitForCallback returns
    timerArmed,     \* the setTimeout callback has not run yet
    timerDue,       \* instant from which the timer may fire
    openConn,       \* a keep-alive connection accepted while bound is still open
    lastRequest,    \* <<>> or <<[req, was]>>: last request the fetch handler ran on
    lastResponse,   \* <<>> or <<[status, body]>>: the response to it
    authCode,       \* the value waitForCallback resolved to, as startOAuthFlow holds it
    tokenRequests,  \* sequence of the POSTs sent to the token endpoint
    flowResult      \* <<>> or <<r>>: what startOAuthFlow returned or threw

discVars  == <<configCache, discReturn>>
storeVars == <<tokenFile, tokenDamage, loadReturn, clearReturn>>
apiVars   == <<tasks, apiReturn>>
cliVars   == <<env, clientsFile, clientReturn, regRequests, provisioned, loginReport,
               earlier, apiVars>>
flowVars  == <<pc, options, config, state, usePKCE, codeVerifier, codeChallenge,
               authUrl, browserOpened, listener, boundPort, promise, timerArmed,
               timerDue, openConn, lastRequest, lastResponse, authCode,
               tokenRequests, flowResult>>
vars == <<now, discVars, storeVars, flowVars, cliVars>>

----------------------------------------------------------------------------
(* JavaScript values                                                       *)

\* undefined / null: a missing property, URLSearchParams.get of a missing key
Absent == "<undefined>"

\* A missing numeric property; arithmetic on it yields NaN
AbsentNumber == 0 - 1

\* JavaScript truthiness of a string-or-missing value
Truthy(v) == v # Absent /\ v # ""

Domains == {"acme.example", "b.example"}

----------------------------------------------------------------------------
(* openid-discovery.ts                                                     *)

CACHE_DURATION == 24 * 60 * 60 * 1000

requiredFields == <<"issuer", "authorization_endpoint", "token_endpoint", "userinfo_endpoint">>

getDefaultClerkConfiguration(domain) ==
    [ issuer                 |-> "https://" \o domain,
      authorization_endpoint |-> "https://" \o domain \o "/oauth/authorize",
      token_endpoint         |-> "https://" \o domain \o "/oauth/token",
      userinfo_endpoint      |-> "https://" \o domain \o "/oauth/userinfo",
      jwks_uri               |-> "https://" \o domain \o "/.well-known/jwks.json",
      registration_endpoint  |-> "https://" \o domain \o "/oauth/register",
      scopes_supported                      |-> <<"openid", "profile", "email">>,
      response_types_supported              |-> <<"code">>,
      grant_types_supported                 |-> <<"authorization_code">>,
      code_challenge_methods_supported      |-> <<"S256">>,
      token_endpoint_auth_methods_supported |-> <<"client_secret_post", "none">> ]

\* The responses the discovery GET can meet.  kind: the fetch rejects
\* ("transport"), the status is not 2xx ("status"), response.json() rejects or
\* yields a non-object ("badjson"), or a JSON object arrives ("json").
FieldValues(url) == {Absent, "", url}

DiscoveryBodies ==
    [ issuer                 : FieldValues("https://idp.example"),
      authorization_endpoint : FieldValues("https://idp.example/authorize"),
      token_endpoint         : FieldValues("https://idp.example/token"),
      userinfo_endpoint      : FieldValues("https://idp.example/userinfo"),
      jwks_uri               : {"https://idp.example/jwks"},
      registration_endpoint  : {Absent, "https://idp.example/register"} ]

NoBody == [ issuer |-> Absent, authorization_endpoint |-> Absent,
            token_endpoint |-> Absent, userinfo_endpoint |-> Absent,
            jwks_uri |-> Absent, registration_endpoint |-> Absent ]

DiscoveryResponses ==
    { [kind |-> k, body |-> NoBody] : k \in {"transport", "status", "badjson"} }
        \cup { [kind |-> "json", body |-> b] : b \in DiscoveryBodies }

\* Lines 22-27: the first required field that is missing or empty, 0 if none
FirstMissing(body) ==
    IF \E i \in 1..Len(requiredFields) : ~Truthy(body[requiredFields[i]])
    THEN CHOOSE i \in 1..Len(requiredFields) :
            /\ ~Truthy(body[requiredFields[i]])
            /\ \A j \in 1..(i - 1) : Truthy(body[requiredFields[j]])
    ELSE 0

\* A faulty variant of the try block: the required-field loop is left out
DiscoveryTry_NoFieldCheck(resp) ==
    IF resp.kind = "transport" THEN [threw |-> TRUE, error |-> "fetch failed", config |-> NoBody]
    ELSE IF resp.kind = "status" THEN
        [threw |-> TRUE, error |-> "Failed to fetch OpenID configuration", config |-> NoBody]
    ELSE IF resp.kind = "badjson" THEN [threw |-> TRUE, error |-> "SyntaxError", config |-> NoBody]
    ELSE [threw |-> FALSE, error |-> "", config |-> resp.body]

\* Lines 13-31, the body of the try block: either it throws, or it yields the
\* configuration it is about to cache and return.
DiscoveryTry(resp) ==
    IF resp.kind = "transport" THEN [threw |-> TRUE, error |-> "fetch failed", config |-> NoBody]
    ELSE IF resp.kind = "status" THEN
        [threw |-> TRUE, error |-> "Failed to fetch OpenID configuration", config |-> NoBody]
    ELSE IF resp.kind = "badjson" THEN [threw |-> TRUE, error |-> "SyntaxError", config |-> NoBody]
    ELSE IF FirstMissing(resp.body) # 0 THEN
        [threw |-> TRUE,
         error |-> "Missing required field in OpenID configuration: "
                       \o requiredFields[FirstMissing(resp.body)],
         config |-> NoBody]
    ELSE [threw |-> FALSE, error |-> "", config |-> resp.body]

\* A faulty variant of the freshness test: an entry exactly 24 hours old still counts
CacheFresh_Inclusive(cache, domain, t) ==
    /\ domain \in DOMAIN cache
    /\ t - cache[domain].timestamp <= CACHE_DURATION

\* Line 7-8: the cache holds a fresh entry for the domain
CacheFresh(cache, domain, t) ==
    /\ domain \in DOMAIN cache
    /\ t - cache[domain].timestamp < CACHE_DURATION

CachePut(cache, domain, entry) ==
    [d \in (DOMAIN cache) \cup {domain} |-> IF d = domain THEN entry ELSE cache[d]]

\* A faulty variant of the resolver: when the request fails and a stale entry
\* is still cached, the stale configuration is returned instead of the defaults
discoverOpenIDConfiguration_StaleOnError(cache, domain, t, resp) ==
    IF CacheFresh(cache, domain, t)
    THEN [threw |-> FALSE, config |-> cache[domain].config, cache |-> cache,
          fetches |-> 0, fellBack |-> FALSE]
    ELSE LET r == DiscoveryTry(resp) IN
         IF r.threw
         THEN [threw |-> FALSE,
               config |-> IF domain \in DOMAIN cache THEN cache[domain].config
                          ELSE getDefaultClerkConfiguration(domain),
               cache |-> cache, fetches |-> 1, fellBack |-> TRUE]
         ELSE [threw |-> FALSE, config |-> r.config,
               cache |-> CachePut(cache, domain, [config |-> r.config, timestamp |-> t]),
               fetches |-> 1, fellBack |-> FALSE]

\* A faulty variant of the resolver: the defaults are cached like a fetched
\* configuration
discoverOpenIDConfiguration_CacheFallback(cache, domain, t, resp) ==
    IF CacheFresh(cache, domain, t)
    THEN [threw |-> FALSE, config |-> cache[domain].config, cache |-> cache,
          fetches |-> 0, fellBack |-> FALSE]
    ELSE LET r == DiscoveryTry(resp) IN
         IF r.threw
         THEN [threw |-> FALSE, config |-> getDefaultClerkConfiguration(domain),
               cache |-> CachePut(cache, domain,
                                  [config |-> getDefaultClerkConfiguration(domain),
                                   timestamp |-> t]),
               fetches |-> 1, fellBack |-> TRUE]
         ELSE [threw |-> FALSE, config |-> r.config,
               cache |-> CachePut(cache, domain, [config |-> r.config, timestamp |-> t]),
               fetches |-> 1, fellBack |-> FALSE]

\* A faulty variant of the resolver: a failed request is sent a second time
\* before the defaults are returned
discoverOpenIDConfiguration_Retry(cache, domain, t, resp) ==
    IF CacheFresh(cache, domain, t)
    THEN [threw |-> FALSE, config |-> cache[domain].config, cache |-> cache,
          fetches |-> 0, fellBack |-> FALSE]
    ELSE LET r == DiscoveryTry(resp) IN
         IF r.threw
         THEN [threw |-> FALSE, config |-> getDefaultClerkConfiguration(domain),
               cache |-> cache, fetches |-> 2, fellBack |-> TRUE]
         ELSE [threw |-> FALSE, config |-> r.config,
               cache |-> CachePut(cache, domain, [config |-> r.config, timestamp |-> t]),
               fetches |-> 1, fellBack |-> FALSE]

\* discoverOpenIDConfiguration(domain) at instant t, the GET (if one is sent)
\* meeting resp.  Yields what the call returns or throws, the cache afterwards
\* and the number of requests sent.
discoverOpenIDConfiguration(cache, domain, t, resp) ==
    IF CacheFresh(cache, domain, t)
    THEN [threw |-> FALSE, config |-> cache[domain].config, cache |-> cache,
          fetches |-> 0, fellBack |-> FALSE]
    ELSE LET r == DiscoveryTry(resp) IN
         IF r.threw
         THEN \* catch: warn and return the defaults
              [threw |-> FALSE, config |-> getDefaultClerkConfiguration(domain),
               cache |-> cache, fetches |-> 1, fellBack |-> TRUE]
         ELSE [threw |-> FALSE, config |-> r.config,
               cache |-> CachePut(cache, domain, [config |-> r.config, timestamp |-> t]),
               fetches |-> 1, fellBack |-> FALSE]

clearConfigCache(cache, domain) ==
    IF Truthy(domain)
    THEN [d \in (DOMAIN cache) \ {domain} |-> cache[d]]
    ELSE [d \in {} |-> cache[d]]

\* ---- the metadata resolver on its own: resolve, clear, and time passing

MaxDays == 1

CacheInstants ==
    { k * CACHE_DURATION + e : k \in 0..MaxDays, e \in {-1, 0, 1} } \cap Nat

NoCache == [d \in {} |-> Absent]

InitDisc ==
    /\ configCache = NoCache
    /\ discReturn = <<>>

Resolve(domain, resp) ==
    LET r == discoverOpenIDConfiguration(configCache, domain, now, resp) IN
    /\ configCache' = r.cache
    /\ discReturn' = << [domain |-> domain, threw |-> r.threw, config |-> r.config,
                         fellBack |-> r.fellBack, fetches |-> r.fetches] >>
    /\ UNCHANGED <<now, storeVars, flowVars, cliVars>>

ClearCache(domain) ==
    /\ configCache' = clearConfigCache(configCache, domain)
    /\ UNCHANGED <<now, discReturn, storeVars, flowVars, cliVars>>

TickDisc ==
    /\ \E t \in CacheInstants : t > now /\ now' = t
    /\ UNCHANGED <<discVars, storeVars, flowVars, cliVars>>

----------------------------------------------------------------------------
(* auth-storage.ts                                                         *)

MsPerSecond == 1000

\* new Date().toISOString(): the instant written as date-time to the second
\* plus a three-digit fraction; new Date(s).getTime() reads it back.
toISOString(ms) == [second |-> ms \div MsPerSecond, milli |-> ms % MsPerSecond]

getTime(iso) == iso.second * MsPerSecond + iso.milli

\* Lines 18-24: the record saveToken writes
StoredToken(domain, token, t) ==
    [ access_token |-> token.access_token,
      token_type   |-> token.token_type,
      expires_in   |-> token.expires_in,
      domain       |-> domain,
      stored_at    |-> toISOString(t) ]

\* Lines 36-40: the expiry test of loadToken.  A record without expires_in
\* gives NaN on the right, and every comparison with NaN is false.
IsExpired(token, t) ==
    /\ token.expires_in # AbsentNumber
    /\ t - getTime(token.stored_at) > token.expires_in * MsPerSecond

\* fs.unlink in clearToken (lines 52-56): it rejects when there is no file or
\* when the file system refuses; clearToken swallows both.
clearToken(file, damage, unlinkOk) ==
    IF (file # <<>> \/ damage # "none") /\ unlinkOk
    THEN [threw |-> FALSE, file |-> <<>>, damage |-> "none"]
    ELSE [threw |-> FALSE, file |-> file, damage |-> damage]

\* Lines 31-45, the body of the try block of loadToken: readFile rejects when
\* there is no file or it cannot be read, JSON.parse throws on a corrupt one.
loadTokenTry(file, damage, t, unlinkOk) ==
    IF file = <<>> \/ damage # "none"
    THEN [threw |-> TRUE, value |-> <<>>, file |-> file, damage |-> damage]
    ELSE IF IsExpired(file[1], t)
    THEN LET c == clearToken(file, damage, unlinkOk) IN
         [threw |-> FALSE, value |-> <<>>, file |-> c.file, damage |-> c.damage]
    ELSE [threw |-> FALSE, value |-> file, file |-> file, damage |-> damage]

\* A faulty variant of loadToken: the catch of lines 46-48 is left out
loadToken_NoCatch(file, damage, t, unlinkOk) ==
    loadTokenTry(file, damage, t, unlinkOk)

\* loadToken at instant t: what it returns and what the file holds afterwards
loadToken(file, damage, t, unlinkOk) ==
    LET r == loadTokenTry(file, damage, t, unlinkOk) IN
    IF r.threw
    THEN [threw |-> FALSE, value |-> <<>>, file |-> file, damage |-> damage]
    ELSE r

\* saveToken (lines 14-28): mkdir and writeFile succeed (writeOk) or one of
\* them rejects, which the catch logs and swallows.
saveToken(file, damage, domain, token, t, writeOk) ==
    IF writeOk
    THEN [threw |-> FALSE, file |-> << StoredToken(domain, token, t) >>, damage |-> "none"]
    ELSE [threw |-> FALSE, file |-> file, damage |-> damage]

\* ---- the token store on its own

MaxSeconds == 2

MaxExpiresIn == 2

StoreInstants ==
    { k * MsPerSecond + e : k \in 0..MaxSeconds, e \in {-1, 0, 1} } \cap Nat

TokenResponses ==
    [ access_token : {"at1", "at2"}, token_type : {"Bearer"}, expires_in : 1..MaxExpiresIn ]

InitStore ==
    /\ tokenFile = <<>>
    /\ tokenDamage = "none"
    /\ loadReturn = <<>>
    /\ clearReturn = <<>>

SaveTokenIO(domain, token, writeOk) ==
    LET r == saveToken(tokenFile, tokenDamage, domain, token, now, writeOk) IN
    /\ tokenFile' = r.file
    /\ tokenDamage' = r.damage
    /\ UNCHANGED <<now, loadReturn, clearReturn, discVars, flowVars, cliVars>>

LoadTokenIO(unlinkOk) ==
    LET r == loadToken(tokenFile, tokenDamage, now, unlinkOk) IN
    /\ tokenFile' = r.file
    /\ tokenDamage' = r.damage
    /\ loadReturn' = << [value |-> r.value, at |-> now, found |-> tokenFile,
                         threw |-> r.threw] >>
    /\ UNCHANGED <<now, clearReturn, discVars, flowVars, cliVars>>

ClearTokenIO(unlinkOk) ==
    LET r == clearToken(tokenFile, tokenDamage, unlinkOk) IN
    /\ tokenFile' = r.file
    /\ tokenDamage' = r.damage
    /\ clearReturn' = << [threw |-> r.threw] >>
    /\ UNCHANGED <<now, loadReturn, discVars, flowVars, cliVars>>

\* The calls on a file system that does what it is asked
SaveToken(domain, token) == SaveTokenIO(domain, token, TRUE)

LoadToken == LoadTokenIO(TRUE)

ClearToken == ClearTokenIO(TRUE)

TickStore ==
    /\ \E t \in StoreInstants : t > now /\ now' = t
    /\ UNCHANGED <<discVars, storeVars, flowVars, cliVars>>

----------------------------------------------------------------------------
(* oauth.ts                                                                *)

TIMEOUT == 300000

\* new URL(redirectUri): the parts waitForCallback reads.  port is "" when
\* the URI names no port.
RedirectUris == {"http://localhost:3000/callback", "http://localhost/cb"}

ParseURL(href) ==
    IF href = "http://localhost:3000/callback"
    THEN [port |-> "3000", pathname |-> "/callback"]
    ELSE [port |-> "", pathname |-> "/cb"]

\* Line 124: url.port || '3000'
ListenPort(url) == IF Truthy(url.port) THEN url.port ELSE "3000"

\* randomBytes(16).toString('hex') and randomBytes(32).toString('base64url')
States == {"s1", "s2"}

Verifiers == {"v1", "v2"}

\* A faulty variant of the challenge: the "plain" method, the verifier itself
generateCodeChallenge_Plain(verifier) == verifier

\* base64url(SHA-256(verifier)): one-way and injective on the verifiers drawn
generateCodeChallenge(verifier) == "S256(" \o verifier \o ")"

OAuthOptions ==
    [ clientId     : {"client-1"},
      clientSecret : {Absent, "", "shh"},
      redirectUri  : RedirectUris,
      domain       : Domains ]

\* A faulty variant of buildAuthorizationUrl: code_challenge_method is left out
buildAuthorizationUrl_NoMethod(opts, authorizationEndpoint, st, challenge, pkce) ==
    [ endpoint              |-> authorizationEndpoint,
      response_type         |-> "code",
      client_id             |-> opts.clientId,
      redirect_uri          |-> opts.redirectUri,
      state                 |-> st,
      scope                 |-> "profile email",
      code_challenge        |-> IF pkce /\ Truthy(challenge) THEN challenge ELSE Absent,
      code_challenge_method |-> Absent ]

\* Lines 94-110
buildAuthorizationUrl(opts, authorizationEndpoint, st, challenge, pkce) ==
    [ endpoint              |-> authorizationEndpoint,
      response_type         |-> "code",
      client_id             |-> opts.clientId,
      redirect_uri          |-> opts.redirectUri,
      state                 |-> st,
      scope                 |-> "profile email",
      code_challenge        |-> IF pkce /\ Truthy(challenge) THEN challenge ELSE Absent,
      code_challenge_method |-> IF pkce /\ Truthy(challenge) THEN "S256" ELSE Absent ]

\* A faulty variant of line 66: options.clientSecret === undefined
UsePKCE_OnlyWhenUndefined(opts) == opts.clientSecret = Absent

\* Line 66: !options.clientSecret
UsePKCE(opts) == ~Truthy(opts.clientSecret)

\* Lines 174-185: the form parameters of the token request
ExchangeParams(opts, code, verifier) ==
    [ grant_type    |-> "authorization_code",
      code          |-> code,
      client_id     |-> opts.clientId,
      redirect_uri  |-> opts.redirectUri,
      client_secret |-> IF Truthy(opts.clientSecret) THEN opts.clientSecret ELSE Absent,
      code_verifier |-> IF ~Truthy(opts.clientSecret) /\ Truthy(verifier)
                        THEN verifier ELSE Absent ]

\* The requests that can reach the listener: every combination of query
\* parameters on the two redirect paths, and a few on a path that is never
\* the redirect path
Requests ==
    [ pathname : {"/callback", "/cb"},
      code     : {Absent, "", "c1", "c2"},
      state    : {Absent} \cup States,
      error    : {Absent, "", "access_denied"} ]
    \cup
    [ pathname : {"/favicon.ico"},
      code     : {Absent, "c1"},
      state    : States,
      error    : {Absent, "access_denied"} ]

NotFound ==
    [stop |-> FALSE, settle |-> "none", value |-> "", status |-> 404, body |-> "Not found"]

\* Faulty variants of the fetch handler: the state check left out; the code
\* tested against null only; the state checked before the error
Handler_NoStateCheck(req, url, expectedState) ==
    IF req.pathname = url.pathname
    THEN IF Truthy(req.error)
         THEN [stop |-> TRUE, settle |-> "rejected",
               value |-> "Authorization error: " \o req.error, status |-> 400,
               body |-> "Authorization failed. You can close this window."]
         ELSE IF Truthy(req.code)
         THEN [stop |-> TRUE, settle |-> "resolved", value |-> req.code, status |-> 200,
               body |-> "Authorization successful! You can close this window."]
         ELSE NotFound
    ELSE NotFound

Handler_CodeNotNull(req, url, expectedState) ==
    IF req.pathname = url.pathname
    THEN IF Truthy(req.error)
         THEN [stop |-> TRUE, settle |-> "rejected",
               value |-> "Authorization error: " \o req.error, status |-> 400,
               body |-> "Authorization failed. You can close this window."]
         ELSE IF req.state # expectedState
         THEN [stop |-> TRUE, settle |-> "rejected",
               value |-> "State mismatch - possible CSRF attack", status |-> 400,
               body |-> "State mismatch. You can close this window."]
         ELSE IF req.code # Absent
         THEN [stop |-> TRUE, settle |-> "resolved", value |-> req.code, status |-> 200,
               body |-> "Authorization successful! You can close this window."]
         ELSE NotFound
    ELSE NotFound

Handler_StateFirst(req, url, expectedState) ==
    IF req.pathname = url.pathname
    THEN IF req.state # expectedState
         THEN [stop |-> TRUE, settle |-> "rejected",
               value |-> "State mismatch - possible CSRF attack", status |-> 400,
               body |-> "State mismatch. You can close this window."]
         ELSE IF Truthy(req.error)
         THEN [stop |-> TRUE, settle |-> "rejected",
               value |-> "Authorization error: " \o req.error, status |-> 400,
               body |-> "Authorization failed. You can close this window."]
         ELSE IF Truthy(req.code)
         THEN [stop |-> TRUE, settle |-> "resolved", value |-> req.code, status |-> 200,
               body |-> "Authorization successful! You can close this window."]
         ELSE NotFound
    ELSE NotFound

\* A faulty variant of the fetch handler: the state-mismatch answer names the
\* state that was expected
Handler_EchoExpectedState(req, url, expectedState) ==
    IF req.pathname = url.pathname
    THEN IF Truthy(req.error)
         THEN [stop |-> TRUE, settle |-> "rejected",
               value |-> "Authorization error: " \o req.error, status |-> 400,
               body |-> "Authorization failed. You can close this window."]
         ELSE IF req.state # expectedState
         THEN [stop |-> TRUE, settle |-> "rejected",
               value |-> "State mismatch - possible CSRF attack", status |-> 400,
               body |-> "State mismatch: expected " \o expectedState]
         ELSE IF Truthy(req.code)
         THEN [stop |-> TRUE, settle |-> "resolved", value |-> req.code, status |-> 200,
               body |-> "Authorization successful! You can close this window."]
         ELSE NotFound
    ELSE NotFound

\* A faulty variant of the handler: the path test of line 132 is left out
Handler_NoPathCheck(req, url, expectedState) ==
    IF Truthy(req.error)
    THEN [stop |-> TRUE, settle |-> "rejected",
          value |-> "Authorization error: " \o req.error, status |-> 400,
          body |-> "Authorization failed. You can close this window."]
    ELSE IF req.state # expectedState
    THEN [stop |-> TRUE, settle |-> "rejected",
          value |-> "State mismatch - possible CSRF attack", status |-> 400,
          body |-> "State mismatch. You can close this window."]
    ELSE IF Truthy(req.code)
    THEN [stop |-> TRUE, settle |-> "resolved", value |-> req.code, status |-> 200,
          body |-> "Authorization successful! You can close this window."]
    ELSE NotFound

\* Lines 129-157: what the fetch handler does with one request
Handler(req, url, expectedState) ==
    IF req.pathname = url.pathname
    THEN IF Truthy(req.error)
         THEN [stop |-> TRUE, settle |-> "rejected",
               value |-> "Authorization error: " \o req.error, status |-> 400,
               body |-> "Authorization failed. You can close this window."]
         ELSE IF req.state # expectedState
         THEN [stop |-> TRUE, settle |-> "rejected",
               value |-> "State mismatch - possible CSRF attack", status |-> 400,
               body |-> "State mismatch. You can close this window."]
         ELSE IF Truthy(req.code)
         THEN [stop |-> TRUE, settle |-> "resolved", value |-> req.code, status |-> 200,
               body |-> "Authorization successful! You can close this window."]
         ELSE NotFound
    ELSE NotFound

\* resolve / reject of a promise: only the first call settles it
NoPromise == [status |-> "none", value |-> ""]

\* A faulty variant of resolve / reject: every call settles the promise anew
Settle_Overwrite(p, how, value) ==
    IF p.status # "none" /\ how # "none" THEN [status |-> how, value |-> value] ELSE p

Settle(p, how, value) ==
    IF p.status = "pending" /\ how # "none" THEN [status |-> how, value |-> value] ELSE p

\* server.stop()
Stop(l) == IF l = "bound" THEN "stopped" ELSE l

\* ---- one login attempt: startOAuthFlow, its listener, its timer

\* The state of the callback receiver, read off the promise of waitForCallback
\* (lines 126, 139, 145, 151, 162)
Receiver ==
    IF promise.status = "none" THEN "Idle"
    ELSE IF promise.status = "pending" THEN "Listening"
    ELSE IF promise.status = "resolved" THEN "Succeeded"
    ELSE IF promise.value = "Authorization timeout" THEN "TimedOut"
    ELSE IF promise.value = "EADDRINUSE" THEN "BindFailed"
    ELSE "Rejected"

Terminal == {"Succeeded", "Rejected", "TimedOut"}

RedirectPath == ParseURL(options.redirectUri).pathname

MaxTimeouts == 1

FlowInstants ==
    { k * TIMEOUT + e : k \in 0..MaxTimeouts, e \in {-1, 0} } \cap Nat

FlowDiscoveryResponses ==
    { r \in DiscoveryResponses :
        \/ r.kind = "transport"
        \/ /\ r.kind = "json"
           /\ r.body.issuer = "https://idp.example"
           /\ r.body.authorization_endpoint = "https://idp.example/authorize"
           /\ r.body.token_endpoint # Absent
           /\ r.body.userinfo_endpoint = "https://idp.example/userinfo"
           /\ r.body.registration_endpoint = Absent }

\* The JSON bodies a 2xx answer of the token endpoint can carry: response.json()
\* is returned as it is (line 200), so any property may be missing.
TokenPayloads ==
    [ access_token : {Absent, "at1"},
      token_type   : {Absent, "Bearer"},
      expires_in   : {AbsentNumber, MaxExpiresIn} ]

NoPayload == [access_token |-> Absent, token_type |-> Absent, expires_in |-> AbsentNumber]

\* What the POST to the token endpoint can meet.  kind: a 2xx answer with a
\* JSON body ("ok"), a 2xx answer whose body is not JSON ("badjson"), another
\* status with the body `text` ("status"), or the fetch rejects ("transport").
TokenEndpointResponses ==
    { [kind |-> "ok", text |-> "", json |-> j] : j \in TokenPayloads }
      \cup { [kind |-> "status", text |-> t, json |-> NoPayload] :
                 t \in {"invalid_grant", "{error:invalid_client}"} }
      \cup { [kind |-> "badjson", text |-> "<html>", json |-> NoPayload],
             [kind |-> "transport", text |-> "", json |-> NoPayload] }

NoOptions == [clientId |-> Absent, clientSecret |-> Absent, redirectUri |-> Absent,
              domain |-> Absent]

InitFlow ==
    /\ pc = "init"
    /\ options = NoOptions
    /\ config = NoBody
    /\ state = Absent
    /\ usePKCE = FALSE
    /\ codeVerifier = ""
    /\ codeChallenge = ""
    /\ authUrl = <<>>
    /\ browserOpened = FALSE
    /\ listener = "unbound"
    /\ boundPort = Absent
    /\ promise = NoPromise
    /\ timerArmed = FALSE
    /\ timerDue = 0
    /\ openConn = FALSE
    /\ lastRequest = <<>>
    /\ lastResponse = <<>>
    /\ authCode = Absent
    /\ tokenRequests = <<>>
    /\ flowResult = <<>>

\* Lines 58-75: discovery, the state, the PKCE pair, the authorization URL
StartOAuthFlow(opts, resp, st, ver) ==
    LET d == discoverOpenIDConfiguration(configCache, opts.domain, now, resp)
        pkce == UsePKCE(opts)
        verifier == IF pkce THEN ver ELSE ""
        challenge == IF pkce THEN generateCodeChallenge(ver) ELSE ""
    IN
    /\ pc = "init"
    /\ (~pkce => ver = CHOOSE v \in Verifiers : TRUE)
    /\ options' = opts
    /\ configCache' = d.cache
    /\ config' = d.config
    /\ state' = st
    /\ usePKCE' = pkce
    /\ codeVerifier' = verifier
    /\ codeChallenge' = challenge
    /\ authUrl' = << buildAuthorizationUrl(opts, d.config.authorization_endpoint, st,
                                          challenge, pkce) >>
    /\ pc' = "open"
    /\ UNCHANGED <<now, discReturn, storeVars, cliVars, browserOpened, listener, boundPort,
                   promise, timerArmed, timerDue, openConn, lastRequest, lastResponse,
                   authCode, tokenRequests, flowResult>>

\* Line 79: await open(authUrl)
OpenBrowser ==
    /\ pc = "open"
    /\ browserOpened' = TRUE
    /\ pc' = "wait"
    /\ UNCHANGED <<now, discVars, storeVars, cliVars, options, config, state, usePKCE,
                   codeVerifier, codeChallenge, authUrl, listener, boundPort, promise,
                   timerArmed, timerDue, openConn, lastRequest, lastResponse, authCode,
                   tokenRequests, flowResult>>

\* Lines 83, 122-164: waitForCallback is called; Bun.serve binds the port and
\* the deadline timer is set.  When the port cannot be bound Bun.serve throws
\* inside the promise executor: the promise is rejected and no timer is set.
WaitForCallback(bindOk) ==
    LET url == ParseURL(options.redirectUri) IN
    /\ pc = "wait"
    /\ boundPort' = ListenPort(url)
    /\ IF bindOk
       THEN /\ listener' = "bound"
            /\ promise' = [status |-> "pending", value |-> ""]
            /\ timerArmed' = TRUE
            /\ timerDue' = now + TIMEOUT
       ELSE /\ promise' = [status |-> "rejected", value |-> "EADDRINUSE"]
            /\ UNCHANGED <<listener, timerArmed, timerDue>>
    /\ pc' = "listening"
    /\ UNCHANGED <<now, discVars, storeVars, cliVars, options, config, state, usePKCE,
                   codeVerifier, codeChallenge, authUrl, browserOpened, openConn,
                   lastRequest, lastResponse, authCode, tokenRequests, flowResult>>

\* Lines 129-157: the fetch handler runs on a request.  A request reaches it on
\* a new connection while the server is bound, or on a connection accepted
\* before server.stop(), which stop() does not close.
Request(req) ==
    LET h == Handler(req, ParseURL(options.redirectUri), state) IN
    /\ listener = "bound" \/ openConn
    /\ listener' = (IF h.stop THEN Stop(listener) ELSE listener)
    /\ promise' = Settle(promise, h.settle, h.value)
    /\ lastRequest' = << req >>
    /\ lastResponse' = << [status |-> h.status, body |-> h.body] >>
    /\ openConn' = TRUE
    /\ UNCHANGED <<now, discVars, storeVars, cliVars, pc, options, config, state, usePKCE,
                   codeVerifier, codeChallenge, authUrl, browserOpened, boundPort,
                   timerArmed, timerDue, authCode, tokenRequests, flowResult>>

\* The client closes its connection
CloseConnection ==
    /\ openConn
    /\ openConn' = FALSE
    /\ UNCHANGED <<now, discVars, storeVars, cliVars, pc, options, config, state, usePKCE,
                   codeVerifier, codeChallenge, authUrl, browserOpened, listener,
                   boundPort, promise, timerArmed, timerDue, lastRequest, lastResponse,
                   authCode, tokenRequests, flowResult>>

\* Faulty variants of the setTimeout callback: reject left out; server.stop()
\* left out
TimerFire_NoReject ==
    /\ timerArmed
    /\ now >= timerDue
    /\ timerArmed' = FALSE
    /\ listener' = Stop(listener)
    /\ UNCHANGED <<now, discVars, storeVars, cliVars, pc, options, config, state, usePKCE,
                   codeVerifier, codeChallenge, authUrl, browserOpened, boundPort,
                   promise, timerDue, openConn, lastRequest, lastResponse, authCode,
                   tokenRequests, flowResult>>

TimerFire_NoStop ==
    /\ timerArmed
    /\ now >= timerDue
    /\ timerArmed' = FALSE
    /\ promise' = Settle(promise, "rejected", "Authorization timeout")
    /\ UNCHANGED <<now, discVars, storeVars, cliVars, pc, options, config, state, usePKCE,
                   codeVerifier, codeChallenge, authUrl, browserOpened, boundPort,
                   listener, timerDue, openConn, lastRequest, lastResponse, authCode,
                   tokenRequests, flowResult>>

\* Lines 160-163: the setTimeout callback
TimerFire ==
    /\ timerArmed
    /\ now >= timerDue
    /\ timerArmed' = FALSE
    /\ listener' = Stop(listener)
    /\ promise' = Settle(promise, "rejected", "Authorization timeout")
    /\ UNCHANGED <<now, discVars, storeVars, cliVars, pc, options, config, state, usePKCE,
                   codeVerifier, codeChallenge, authUrl, browserOpened, boundPort,
                   timerDue, openConn, lastRequest, lastResponse, authCode,
                   tokenRequests, flowResult>>

\* Line 83: the await of startOAuthFlow continues once the promise is settled
Resume ==
    /\ pc = "listening"
    /\ promise.status \in {"resolved", "rejected"}
    /\ IF promise.status = "resolved"
       THEN /\ authCode' = promise.value
            /\ pc' = "exchange"
            /\ UNCHANGED flowResult
       ELSE /\ flowResult' = << [ok |-> FALSE, error |-> promise.value, tokens |-> <<>>] >>
            /\ pc' = "failed"
            /\ UNCHANGED authCode
    /\ UNCHANGED <<now, discVars, storeVars, cliVars, options, config, state, usePKCE,
                   codeVerifier, codeChallenge, authUrl, browserOpened, listener,
                   boundPort, promise, timerArmed, timerDue, openConn, lastRequest,
                   lastResponse, tokenRequests>>

\* A faulty variant of exchangeCodeForToken: response.ok is not looked at, the
\* body of any answer is parsed and returned
ExchangeCodeForToken_NoOkCheck(resp) ==
    /\ pc = "exchange"
    /\ tokenRequests' = Append(tokenRequests,
            [ endpoint |-> config.token_endpoint,
              body |-> ExchangeParams(options, authCode, codeVerifier) ])
    /\ IF resp.kind \in {"ok", "status"}
       THEN /\ flowResult' = << [ok |-> TRUE, error |-> "", tokens |-> << resp.json >>] >>
            /\ pc' = "done"
       ELSE /\ flowResult' =
                 << [ok |-> FALSE,
                     error |-> IF resp.kind = "badjson" THEN "SyntaxError" ELSE "fetch failed",
                     tokens |-> <<>>] >>
            /\ pc' = "failed"
    /\ UNCHANGED <<now, discVars, storeVars, cliVars, options, config, state, usePKCE,
                   codeVerifier, codeChallenge, authUrl, browserOpened, listener,
                   boundPort, promise, timerArmed, timerDue, openConn, lastRequest,
                   lastResponse, authCode>>

\* Lines 87, 167-201: exchangeCodeForToken
ExchangeCodeForToken(resp) ==
    /\ pc = "exchange"
    /\ tokenRequests' = Append(tokenRequests,
            [ endpoint |-> config.token_endpoint,
              body |-> ExchangeParams(options, authCode, codeVerifier) ])
    /\ IF resp.kind = "ok"
       THEN /\ flowResult' = << [ok |-> TRUE, error |-> "", tokens |-> << resp.json >>] >>
            /\ pc' = "done"
       ELSE /\ flowResult' =
                 << [ok |-> FALSE,
                     error |-> IF resp.kind = "status"
                               THEN "Token exchange failed: " \o resp.text
                               ELSE IF resp.kind = "badjson" THEN "SyntaxError"
                               ELSE "fetch failed",
                     tokens |-> <<>>] >>
            /\ pc' = "failed"
    /\ UNCHANGED <<now, discVars, storeVars, cliVars, options, config, state, usePKCE,
                   codeVerifier, codeChallenge, authUrl, browserOpened, listener,
                   boundPort, promise, timerArmed, timerDue, openConn, lastRequest,
                   lastResponse, authCode>>

\* The login commands after startOAuthFlow returned (part_001 lines 50-55 and
\* 135-140, interactive.ts lines 96-111): saveToken, then the success message
LoginSave(writeOk) ==
    /\ pc = "done"
    /\ loginReport = ""
    /\ LET r == saveToken(tokenFile, tokenDamage, options.domain,
                          flowResult[1].tokens[1], now, writeOk) IN
       /\ tokenFile' = r.file
       /\ tokenDamage' = r.damage
    /\ loginReport' = "success"
    /\ UNCHANGED <<now, discVars, loadReturn, clearReturn, flowVars, env, clientsFile,
                   clientReturn, regRequests, provisioned, earlier, apiVars>>

\* A faulty variant of the catch block: the stored token is cleared
LoginFail_ClearToken ==
    /\ pc = "failed"
    /\ loginReport = ""
    /\ loginReport' = "failed"
    /\ tokenFile' = <<>>
    /\ UNCHANGED <<now, discVars, tokenDamage, loadReturn, clearReturn, flowVars, env,
                   clientsFile, clientReturn, regRequests, provisioned, earlier, apiVars>>

\* The login commands when startOAuthFlow threw (part_001 lines 56-59 and
\* 141-144, interactive.ts lines 112-115): the failure is printed
LoginFail ==
    /\ pc = "failed"
    /\ loginReport = ""
    /\ loginReport' = "failed"
    /\ UNCHANGED <<now, discVars, storeVars, flowVars, env, clientsFile,
                   clientReturn, regRequests, provisioned, earlier, apiVars>>

\* Time passes while the deadline timer is pending
TickFlow ==
    /\ timerArmed
    /\ \E t \in FlowInstants : t > now /\ now' = t
    /\ UNCHANGED <<discVars, storeVars, flowVars, cliVars>>

----------------------------------------------------------------------------
(* client-registration.ts                                                  *)

\* clients.json as readFile and JSON.parse find it: there is no file
\* ("missing"), it holds the object `data` ("json"), it holds text that is
\* not JSON ("corrupt"), or it cannot be read ("unreadable")
NoClients == [d \in {} |-> Absent]

NoClientsFile == [kind |-> "missing", data |-> NoClients]

\* Lines 20-28
RegistrationRequest ==
    [ client_name                |-> "Clerk OAuth CLI",
      redirect_uris              |-> <<"http://localhost:3000/callback">>,
      grant_types                |-> <<"authorization_code">>,
      response_types             |-> <<"code">>,
      token_endpoint_auth_method |-> "none",
      application_type           |-> "native",
      scope                      |-> "openid profile email" ]

\* The part of a ClientRegistrationResponse the login commands read
ClientRegistrationResponses ==
    [ client_id : {"reg-1"}, client_secret : {Absent, "reg-secret"} ]

NoClientData == [client_id |-> Absent, client_secret |-> Absent]

\* What the POST to the registration endpoint can meet
RegistrationEndpointResponses ==
    { [kind |-> "ok", text |-> "", json |-> j] : j \in ClientRegistrationResponses }
      \cup { [kind |-> "status", text |-> "invalid_client_metadata", json |-> NoClientData],
             [kind |-> "badjson", text |-> "<html>", json |-> NoClientData],
             [kind |-> "transport", text |-> "", json |-> NoClientData] }

\* Lines 75-78, the body of the try block of loadClientData
loadClientDataTry(file, domain) ==
    IF file.kind # "json"
    THEN [threw |-> TRUE, value |-> <<>>]
    ELSE [threw |-> FALSE,
          value |-> IF domain \in DOMAIN file.data THEN << file.data[domain] >> ELSE <<>>]

\* Lines 74-82: <<>> is null
loadClientData(file, domain) ==
    LET r == loadClientDataTry(file, domain) IN
    IF r.threw THEN [threw |-> FALSE, value |-> <<>>] ELSE r

\* A faulty variant of saveClientData: the file is written anew, the entries
\* it held are not read
saveClientData_NoMerge(file, domain, clientData, writeOk) ==
    IF writeOk
    THEN [kind |-> "json", data |-> CachePut(NoClients, domain, clientData)]
    ELSE file

\* A faulty variant of saveClientData: the entry is keyed by the client ID
saveClientData_ByClientId(file, domain, clientData, writeOk) ==
    LET existingData == IF file.kind = "json" THEN file.data ELSE NoClients IN
    IF writeOk
    THEN [kind |-> "json", data |-> CachePut(existingData, clientData.client_id, clientData)]
    ELSE file

\* Lines 53-72: the file afterwards.  A file that cannot be read or parsed
\* counts as empty (inner try); a failing mkdir or writeFile is swallowed.
saveClientData(file, domain, clientData, writeOk) ==
    LET existingData == IF file.kind = "json" THEN file.data ELSE NoClients IN
    IF writeOk
    THEN [kind |-> "json", data |-> CachePut(existingData, domain, clientData)]
    ELSE file

\* Lines 84-93: the file afterwards
deleteClientData(file, domain, writeOk) ==
    IF file.kind = "json" /\ writeOk
    THEN [kind |-> "json", data |-> [d \in (DOMAIN file.data) \ {domain} |-> file.data[d]]]
    ELSE file

\* A faulty variant of registerClient: the test of lines 14-16 is left out
registerClient_NoEndpointCheck(cache, file, domain, t, discResp, regResp, writeOk) ==
    LET d    == discoverOpenIDConfiguration(cache, domain, t, discResp)
        post == [endpoint |-> d.config.registration_endpoint, body |-> RegistrationRequest]
    IN  IF regResp.kind = "ok"
        THEN [threw |-> FALSE, error |-> "", value |-> regResp.json, requests |-> << post >>,
              file |-> saveClientData(file, domain, regResp.json, writeOk),
              cache |-> d.cache, fetches |-> d.fetches]
        ELSE [threw |-> TRUE,
              error |-> IF regResp.kind = "status"
                        THEN "Client registration failed: " \o regResp.text
                        ELSE IF regResp.kind = "badjson" THEN "SyntaxError"
                        ELSE "fetch failed",
              value |-> NoClientData, requests |-> << post >>, file |-> file,
              cache |-> d.cache, fetches |-> d.fetches]

\* Lines 11-51: registerClient(domain) at instant t, the discovery GET (if one
\* is sent) meeting discResp and the registration POST (if one is sent)
\* meeting regResp.  Yields what it returns or throws, the requests it sent
\* to the registration endpoint, and clients.json and the cache afterwards.
registerClient(cache, file, domain, t, discResp, regResp, writeOk) ==
    LET d    == discoverOpenIDConfiguration(cache, domain, t, discResp)
        post == [endpoint |-> d.config.registration_endpoint, body |-> RegistrationRequest]
    IN  IF ~Truthy(d.config.registration_endpoint)
        THEN [threw |-> TRUE,
              error |-> "OAuth provider does not support dynamic client registration",
              value |-> NoClientData, requests |-> <<>>, file |-> file,
              cache |-> d.cache, fetches |-> d.fetches]
        ELSE IF regResp.kind = "ok"
        THEN [threw |-> FALSE, error |-> "", value |-> regResp.json, requests |-> << post >>,
              file |-> saveClientData(file, domain, regResp.json, writeOk),
              cache |-> d.cache, fetches |-> d.fetches]
        ELSE [threw |-> TRUE,
              error |-> IF regResp.kind = "status"
                        THEN "Client registration failed: " \o regResp.text
                        ELSE IF regResp.kind = "badjson" THEN "SyntaxError"
                        ELSE "fetch failed",
              value |-> NoClientData, requests |-> << post >>, file |-> file,
              cache |-> d.cache, fetches |-> d.fetches]

\* ---- the credentials of a login (part_001 login-auto, interactive.ts handleLogin)

EnvClientIds == {Absent, "", "env-id"}

EnvClientSecrets == {Absent, "env-secret"}

Environments ==
    [ CLERK_OAUTH_CLIENT_ID : EnvClientIds, CLERK_OAUTH_CLIENT_SECRET : EnvClientSecrets ]

\* part_001 lines 110-126 and interactive.ts lines 47-57, 88-90: clientData
\* from the environment, else from clients.json, else from registerClient.
\* loads counts the loadClientData calls, saved is what the call returned,
\* registered what registerClient returned.
resolveClientData(e, cache, file, domain, t, discResp, regResp, writeOk) ==
    IF Truthy(e.CLERK_OAUTH_CLIENT_ID)
    THEN [threw |-> FALSE, error |-> "",
          clientData |-> [client_id |-> e.CLERK_OAUTH_CLIENT_ID,
                          client_secret |-> e.CLERK_OAUTH_CLIENT_SECRET],
          loads |-> 0, saved |-> <<>>, registered |-> <<>>, requests |-> <<>>,
          file |-> file, cache |-> cache, fetches |-> 0]
    ELSE LET l == loadClientData(file, domain) IN
         IF l.value # <<>>
         THEN [threw |-> FALSE, error |-> "", clientData |-> l.value[1],
               loads |-> 1, saved |-> l.value, registered |-> <<>>, requests |-> <<>>,
               file |-> file, cache |-> cache, fetches |-> 0]
         ELSE LET r == registerClient(cache, file, domain, t, discResp, regResp, writeOk) IN
              [threw |-> r.threw, error |-> r.error, clientData |-> r.value,
               loads |-> 1, saved |-> <<>>,
               registered |-> IF r.threw THEN <<>> ELSE << r.value >>,
               requests |-> r.requests, file |-> r.file, cache |-> r.cache,
               fetches |-> r.fetches]

\* part_001 lines 96-133: the config login-auto passes to startOAuthFlow, or
\* the failure it prints when registerClient threw
loginAutoConfig(c) ==
    [ started      |-> ~c.threw,
      error        |-> c.error,
      clientId     |-> c.clientData.client_id,
      clientSecret |-> c.clientData.client_secret,
      typed        |-> Absent ]

\* interactive.ts lines 58-86, 94-101: when registerClient threw the user may
\* type a client ID (typed) or decline (Absent); the secret is the
\* environment's if there is one, else the one of clientData
handleLoginConfig(e, c, typed) ==
    LET clientData == IF c.threw THEN [client_id |-> typed, client_secret |-> Absent]
                      ELSE c.clientData
    IN  [ started      |-> ~c.threw \/ typed # Absent,
          error        |-> c.error,
          clientId     |-> clientData.client_id,
          clientSecret |-> IF Truthy(e.CLERK_OAUTH_CLIENT_SECRET)
                           THEN e.CLERK_OAUTH_CLIENT_SECRET
                           ELSE clientData.client_secret,
          typed        |-> IF c.threw THEN typed ELSE Absent ]

MaxRegistrations == 1

\* Discovery fails (the defaults name a registration endpoint), or it yields
\* a provider with or without a registration endpoint
ProvisionDiscoveryResponses ==
    { r \in DiscoveryResponses :
        r.kind = "transport" \/ (r.kind = "json" /\ FirstMissing(r.body) = 0) }

\* The outcome of a credential resolution, as the variable provisioned holds it
Provisioned(command, domain, c, cfg) ==
    [ command  |-> command, domain |-> domain,
      started  |-> cfg.started, error |-> cfg.error,
      clientId |-> cfg.clientId, clientSecret |-> cfg.clientSecret, typed |-> cfg.typed,
      loads    |-> c.loads, saved |-> c.saved, registered |-> c.registered,
      posts    |-> Len(c.requests), fetches |-> c.fetches ]

\* The effect of a credential resolution c on the files, the cache and the network
Provision(c) ==
    /\ Len(regRequests) + Len(c.requests) <= MaxRegistrations
    /\ regRequests' = regRequests \o c.requests
    /\ clientsFile' = c.file
    /\ configCache' = c.cache
    /\ UNCHANGED <<now, discReturn, storeVars, flowVars, env, clientReturn, loginReport, earlier, apiVars>>

LoginAuto(domain, discResp, regResp, writeOk) ==
    LET c == resolveClientData(env, configCache, clientsFile, domain, now,
                               discResp, regResp, writeOk) IN
    /\ provisioned' = << Provisioned("login-auto", domain, c, loginAutoConfig(c)) >>
    /\ Provision(c)

HandleLogin(domain, discResp, regResp, writeOk, typed) ==
    LET c == resolveClientData(env, configCache, clientsFile, domain, now,
                               discResp, regResp, writeOk) IN
    /\ provisioned' = << Provisioned("interactive", domain, c,
                                     handleLoginConfig(env, c, typed)) >>
    /\ Provision(c)

\* part_001 lines 147-164: the unregister command
Unregister(domain, writeOk) ==
    /\ clientsFile' = deleteClientData(clientsFile, domain, writeOk)
    /\ UNCHANGED <<now, discVars, storeVars, flowVars, env, clientReturn, regRequests,
                   provisioned, loginReport, earlier, apiVars>>

\* A call of loadClientData
LoadClientData(domain) ==
    LET r == loadClientData(clientsFile, domain) IN
    /\ clientReturn' = << [domain |-> domain, threw |-> r.threw, value |-> r.value] >>
    /\ UNCHANGED <<now, discVars, storeVars, flowVars, env, clientsFile, regRequests,
                   provisioned, loginReport, earlier, apiVars>>

\* part_001 lines 128-133: the config login-auto passes to startOAuthFlow
\* once the credentials are resolved; none while they are not, or when
\* registerClient threw
LoginOptions ==
    IF provisioned # <<>> /\ provisioned[1].started
    THEN { [ clientId     |-> provisioned[1].clientId,
             clientSecret |-> provisioned[1].clientSecret,
             redirectUri  |-> "http://localhost:3000/callback",
             domain       |-> provisioned[1].domain ] }
    ELSE {}

\* part_001 lines 141-144: registerClient threw, login-auto prints the failure
LoginAutoFail ==
    /\ provisioned # <<>>
    /\ ~provisioned[1].started
    /\ loginReport = ""
    /\ loginReport' = "failed"
    /\ UNCHANGED <<now, discVars, storeVars, flowVars, env, clientsFile,
                   clientReturn, regRequests, provisioned, earlier, apiVars>>

\* ---- interactive.ts, mainMenu: one login after another in one process

MaxLogins == 2

\* What an attempt leaves behind when startOAuthFlow has returned or thrown:
\* the server, the promise and the timer of its waitForCallback call, which
\* the closure of its setTimeout callback still holds
AttemptClosure ==
    [ listener |-> listener, promise |-> promise,
      timerArmed |-> timerArmed, timerDue |-> timerDue ]

\* interactive.ts lines 269-300 and 36-116: handleLogin has returned, the
\* menu is shown again, checkAuth finds no valid token (loadToken clears an
\* expired one) and the user chooses Login: a new attempt begins.  Nothing
\* cancels the timer of the attempt before.
MainMenuLogin ==
    LET l == loadToken(tokenFile, tokenDamage, now, TRUE) IN
    /\ pc \in {"done", "failed"}
    /\ loginReport # ""
    /\ Len(earlier) + 1 < MaxLogins
    /\ l.value = <<>>
    /\ tokenFile' = l.file
    /\ tokenDamage' = l.damage
    /\ earlier' = Append(earlier, AttemptClosure)
    /\ loginReport' = ""
    /\ pc' = "init"
    /\ options' = NoOptions
    /\ config' = NoBody
    /\ state' = Absent
    /\ usePKCE' = FALSE
    /\ codeVerifier' = ""
    /\ codeChallenge' = ""
    /\ authUrl' = <<>>
    /\ browserOpened' = FALSE
    /\ listener' = "unbound"
    /\ boundPort' = Absent
    /\ promise' = NoPromise
    /\ timerArmed' = FALSE
    /\ timerDue' = 0
    /\ openConn' = FALSE
    /\ lastRequest' = <<>>
    /\ lastResponse' = <<>>
    /\ authCode' = Absent
    /\ tokenRequests' = <<>>
    /\ flowResult' = <<>>
    /\ UNCHANGED <<now, discVars, loadReturn, clearReturn, env, clientsFile, clientReturn,
                   regRequests, provisioned, apiVars>>

\* A faulty variant of the setTimeout callback: server and reject are not the
\* ones of the callback's own waitForCallback call but the latest ones
EarlierTimerFire_LatestServer ==
    \E i \in DOMAIN earlier :
       /\ earlier[i].timerArmed
       /\ now >= earlier[i].timerDue
       /\ earlier' = [earlier EXCEPT ![i].timerArmed = FALSE]
       /\ listener' = Stop(listener)
       /\ promise' = Settle(promise, "rejected", "Authorization timeout")
       /\ UNCHANGED <<now, discVars, storeVars, env, clientsFile, clientReturn, regRequests,
                      provisioned, loginReport, pc, options, config, state, usePKCE,
                      codeVerifier, codeChallenge, authUrl, browserOpened, boundPort,
                      timerArmed, timerDue, openConn, lastRequest, lastResponse, authCode,
                      tokenRequests, flowResult, apiVars>>

\* part_000 lines 160-163: the setTimeout callback of an earlier attempt
\* runs.  server and reject are those of its own waitForCallback call.
EarlierTimerFire ==
    \E i \in DOMAIN earlier :
       /\ earlier[i].timerArmed
       /\ now >= earlier[i].timerDue
       /\ earlier' = [earlier EXCEPT
                        ![i].timerArmed = FALSE,
                        ![i].listener = Stop(@),
                        ![i].promise = Settle(@, "rejected", "Authorization timeout")]
       /\ UNCHANGED <<now, discVars, storeVars, env, clientsFile, clientReturn, regRequests,
                      provisioned, loginReport, flowVars, apiVars>>

----------------------------------------------------------------------------
(* packages/api: index.ts, middleware/auth.ts, routes/tasks.ts, db/init.ts *)

\* The users Clerk knows, and the ids crypto.randomUUID() can return
Users == {"user_a", "user_b"}
TaskIds == {"t1", "t2"}

\* The table tasks right after initDatabase created it
NoTasks == [id \in {} |-> <<>>]

\* What clerkClient.authenticateRequest(request, {acceptsToken: 'oauth_token'})
\* makes of the Authorization header of a request: it throws, it returns a
\* signed-out state, it returns a state whose toAuth() is not authenticated,
\* or it returns the state of a user
AuthOutcomes ==
    { [kind |-> "throws", userId |-> Absent],
      [kind |-> "signedOut", userId |-> Absent],
      [kind |-> "noAuth", userId |-> Absent] }
    \cup { [kind |-> "user", userId |-> u] : u \in Users }

\* authMiddleware: next says whether the route handler runs, user is c.get('user')
authMiddleware(auth) ==
    IF auth.kind = "throws"
    THEN [next |-> FALSE, status |-> 401,
          body |-> [error |-> "Invalid or expired token"], user |-> [sub |-> Absent]]
    ELSE IF auth.kind = "signedOut"
    THEN [next |-> FALSE, status |-> 401,
          body |-> [error |-> "Unauthorized"], user |-> [sub |-> Absent]]
    ELSE IF auth.kind = "noAuth"
    THEN [next |-> FALSE, status |-> 401,
          body |-> [error |-> "No user ID found in token"], user |-> [sub |-> Absent]]
    ELSE [next |-> TRUE, status |-> 0, body |-> [error |-> ""],
          user |-> [sub |-> auth.userId]]

\* SELECT * FROM tasks WHERE id = ? AND user_id = ?  (db.get: <<>> is undefined)
SelectOwn(db, id, sub) ==
    IF id \in DOMAIN db /\ db[id].user_id = sub THEN <<db[id]>> ELSE <<>>

\* GET /: SELECT * FROM tasks WHERE user_id = ? (the rows, whatever their order)
listTasks(db, user) ==
    [status |-> 200,
     body |-> { db[id] : id \in { i \in DOMAIN db : db[i].user_id = user.sub } },
     db |-> db]

\* GET /:id
getTask(db, user, taskId) ==
    LET task == SelectOwn(db, taskId, user.sub)
    IN  IF task = <<>>
        THEN [status |-> 404, body |-> [error |-> "Task not found"], db |-> db]
        ELSE [status |-> 200, body |-> task[1], db |-> db]

\* POST /: uuid is what randomUUID() returned, t the instant of new Date()
createTask(db, user, body, uuid, t) ==
    IF ~Truthy(body.title)
    THEN [status |-> 400, body |-> [error |-> "Title is required"], db |-> db]
    ELSE LET task == [id |-> uuid, user_id |-> user.sub, title |-> body.title,
                      description |-> IF Truthy(body.description)
                                      THEN body.description ELSE "",
                      completed |-> FALSE,
                      created_at |-> toISOString(t), updated_at |-> toISOString(t)]
             row == [task EXCEPT !.completed = IF task.completed THEN 1 ELSE 0]
         IN  [status |-> 201, body |-> task,
              db |-> [i \in DOMAIN db \cup {uuid} |-> IF i = uuid THEN row ELSE db[i]]]

\* UPDATE tasks SET updated_at = ?, ... WHERE id = ? AND user_id = ?
UpdateOwn(db, id, sub, body, t) ==
    IF id \in DOMAIN db /\ db[id].user_id = sub
    THEN [db EXCEPT ![id] =
            [@ EXCEPT !.updated_at = toISOString(t),
                      !.title = IF body.title # Absent THEN body.title ELSE @,
                      !.description = IF body.description # Absent
                                      THEN body.description ELSE @,
                      !.completed = IF body.completed = Absent THEN @
                                    ELSE IF body.completed = "true" THEN 1 ELSE 0]]
    ELSE db

\* PATCH /:id
updateTask(db, user, taskId, body, t) ==
    IF SelectOwn(db, taskId, user.sub) = <<>>
    THEN [status |-> 404, body |-> [error |-> "Task not found"], db |-> db]
    ELSE LET after == UpdateOwn(db, taskId, user.sub, body, t)
         IN  [status |-> 200, body |-> SelectOwn(after, taskId, user.sub)[1],
              db |-> after]

\* DELETE FROM tasks WHERE id = ?: the statement without the owner condition
deleteTask_AnyOwner(db, user, taskId) ==
    IF taskId \notin DOMAIN db
    THEN [status |-> 404, body |-> [error |-> "Task not found"], db |-> db]
    ELSE [status |-> 200, body |-> [message |-> "Task deleted successfully"],
          db |-> [i \in DOMAIN db \ {taskId} |-> db[i]]]

\* DELETE /:id: DELETE FROM tasks WHERE id = ? AND user_id = ?
deleteTask(db, user, taskId) ==
    LET hit == { i \in DOMAIN db : i = taskId /\ db[i].user_id = user.sub }
        changes == Cardinality(hit)
    IN  IF changes = 0
        THEN [status |-> 404, body |-> [error |-> "Task not found"], db |-> db]
        ELSE [status |-> 200, body |-> [message |-> "Task deleted successfully"],
              db |-> [i \in DOMAIN db \ hit |-> db[i]]]

\* The requests sent to /api/tasks: route is the handler Hono matches, taskId
\* the :id of the path, auth what Clerk makes of the credentials, body the
\* JSON sent (from which the handlers read title, description, completed;
\* the JSON booleans are written "true" and "false")
ApiBodies(titles, descriptions, completeds, owners) ==
    { [title |-> ti, description |-> de, completed |-> co, user_id |-> ow] :
        ti \in titles, de \in descriptions, co \in completeds, ow \in owners }

NoJson == [title |-> Absent, description |-> Absent, completed |-> Absent,
           user_id |-> Absent]

ApiRequests ==
    { [route |-> ro, taskId |-> Absent, auth |-> au, body |-> NoJson] :
        ro \in {"list"}, au \in AuthOutcomes }
    \cup { [route |-> ro, taskId |-> id, auth |-> au, body |-> NoJson] :
            ro \in {"get", "delete"}, id \in TaskIds, au \in AuthOutcomes }
    \cup { [route |-> ro, taskId |-> Absent, auth |-> au, body |-> bo] :
            ro \in {"create"}, au \in AuthOutcomes,
            bo \in ApiBodies({Absent, "a"}, {Absent, "d"}, {Absent},
                             {Absent, "user_b"}) }
    \cup { [route |-> ro, taskId |-> id, auth |-> au, body |-> bo] :
            ro \in {"update"}, id \in TaskIds, au \in AuthOutcomes,
            bo \in ApiBodies({Absent, "b"}, {Absent}, {Absent, "true"},
                             {Absent, "user_a"}) }

\* app: app.use('/api/*', authMiddleware) and then app.route('/api/tasks', taskRoutes)
app(db, req, uuid, t) ==
    LET a == authMiddleware(req.auth)
    IN  IF ~a.next THEN [status |-> a.status, body |-> a.body, db |-> db]
        ELSE IF req.route = "list" THEN listTasks(db, a.user)
        ELSE IF req.route = "get" THEN getTask(db, a.user, req.taskId)
        ELSE IF req.route = "create" THEN createTask(db, a.user, req.body, uuid, t)
        ELSE IF req.route = "update" THEN updateTask(db, a.user, req.taskId, req.body, t)
        ELSE deleteTask(db, a.user, req.taskId)

\* The server answers one request; randomUUID(), which only POST / calls,
\* returns an id no row has
ApiRequest(req) ==
    /\ \E uuid \in (IF req.route = "create" THEN TaskIds \ DOMAIN tasks ELSE {Absent}) :
          LET r == app(tasks, req, uuid, now)
          IN  /\ tasks' = r.db
              /\ apiReturn' = <<[req |-> req, status |-> r.status, body |-> r.body]>>
    /\ UNCHANGED <<now, discVars, storeVars, flowVars, env, clientsFile, clientReturn,
                   regRequests, provisioned, loginReport, earlier>>

----------------------------------------------------------------------------
(* Specifications                                                          *)

InitCli ==
    /\ env = [CLERK_OAUTH_CLIENT_ID |-> Absent, CLERK_OAUTH_CLIENT_SECRET |-> Absent]
    /\ clientsFile = NoClientsFile
    /\ clientReturn = <<>>
    /\ regRequests = <<>>
    /\ provisioned = <<>>
    /\ loginReport = ""
    /\ earlier = <<>>
    /\ tasks = NoTasks
    /\ apiReturn = <<>>

Init == now = 0 /\ InitDisc /\ InitStore /\ InitFlow /\ InitCli

\* One login attempt, its inputs drawn from the given sets
FlowNext(optionSet, discoverySet, verifierSet, requestSet, tokenSet) ==
    \/ \E opts \in optionSet, resp \in discoverySet, st \in States, ver \in verifierSet :
          StartOAuthFlow(opts, resp, st, ver)
    \/ OpenBrowser
    \/ \E bindOk \in BOOLEAN : WaitForCallback(bindOk)
    \/ \E req \in requestSet :
          /\ req.pathname \in {RedirectPath, "/favicon.ico"}
          /\ Request(req)
    \/ CloseConnection
    \/ TimerFire
    \/ Resume
    \/ \E resp \in tokenSet : ExchangeCodeForToken(resp)
    \/ TickFlow

\* What a login command does with the outcome of startOAuthFlow
LoginNext ==
    \/ \E writeOk \in BOOLEAN : LoginSave(writeOk)
    \/ LoginFail

\* The callback receiver in detail: every request, a public client
ReceiverOptions ==
    { o \in OAuthOptions : o.domain = "acme.example" /\ o.clientSecret = Absent }

ReceiverTokenResponses ==
    { r \in TokenEndpointResponses :
        /\ r.kind = "ok" => r.json = [access_token |-> "at1", token_type |-> "Bearer",
                                      expires_in |-> MaxExpiresIn]
        /\ r.kind = "status" => r.text = "invalid_grant"
        /\ r.kind # "badjson" }

Next ==
    FlowNext(ReceiverOptions, {r \in FlowDiscoveryResponses : r.kind = "transport"},
             {"v1"}, Requests, ReceiverTokenResponses)

Spec == Init /\ [][Next]_vars

\* Time does not stop, and the event loop runs a due timer and the
\* continuation of a settled await
FairSpec == Spec /\ WF_vars(TickFlow) /\ WF_vars(TimerFire) /\ WF_vars(Resume)

\* The client and the provider in detail: every kind of client, domain and
\* discovery outcome, a few requests
ClientRequests ==
    { r \in Requests :
        /\ r.pathname # "/favicon.ico"
        /\ r.code = "c1"
        /\ r.state # Absent
        /\ r.error # "" }

ClientNext ==
    \/ FlowNext(OAuthOptions, FlowDiscoveryResponses, Verifiers, ClientRequests,
                TokenEndpointResponses)
    \/ LoginNext

ClientSpec == Init /\ [][ClientNext]_vars

\* The token store
NextStore ==
    \/ \E d \in Domains, token \in TokenResponses : SaveToken(d, token)
    \/ LoadToken
    \/ ClearToken
    \/ TickStore

StoreSpec == Init /\ [][NextStore]_vars

\* The metadata resolver
NextDisc ==
    \/ \E d \in Domains, resp \in DiscoveryResponses : Resolve(d, resp)
    \/ \E d \in Domains \cup {Absent} : ClearCache(d)
    \/ TickDisc

DiscSpec == Init /\ [][NextDisc]_vars

\* clients.json when the process starts: none, or the registration an earlier
\* run saved for b.example
EarlierClientsFiles ==
    { NoClientsFile,
      [kind |-> "json",
       data |-> [d \in {"b.example"} |-> [client_id |-> "reg-0", client_secret |-> Absent]]] }

\* The credentials of a login: any environment, the commands in any order
InitProvision ==
    /\ now = 0 /\ InitDisc /\ InitStore /\ InitFlow
    /\ env \in Environments
    /\ clientsFile \in EarlierClientsFiles
    /\ clientReturn = <<>>
    /\ regRequests = <<>>
    /\ provisioned = <<>>
    /\ loginReport = ""
    /\ earlier = <<>>
    /\ tasks = NoTasks
    /\ apiReturn = <<>>

NextProvision ==
    \/ \E d \in Domains, discResp \in ProvisionDiscoveryResponses,
          regResp \in RegistrationEndpointResponses, writeOk \in BOOLEAN :
            \/ LoginAuto(d, discResp, regResp, writeOk)
            \/ \E typed \in {Absent, "typed-id"} :
                   HandleLogin(d, discResp, regResp, writeOk, typed)
    \/ \E d \in Domains, writeOk \in BOOLEAN : Unregister(d, writeOk)

ProvisionSpec == InitProvision /\ [][NextProvision]_vars

\* The files of the configuration directory failing: tokens.json and
\* clients.json may be damaged when the process starts, and writeFile and
\* unlink may be refused; one login of a public client, loads and clears
FaultClientsFiles ==
    { NoClientsFile,
      [kind |-> "corrupt", data |-> NoClients],
      [kind |-> "unreadable", data |-> NoClients],
      [kind |-> "json",
       data |-> [d \in {"acme.example"} |-> [client_id |-> "reg-1", client_secret |-> Absent]]] }

InitFault ==
    /\ now = 0 /\ InitDisc /\ InitFlow
    /\ tokenFile = <<>>
    /\ tokenDamage \in {"none", "unreadable", "corrupt"}
    /\ loadReturn = <<>>
    /\ clearReturn = <<>>
    /\ env = [CLERK_OAUTH_CLIENT_ID |-> Absent, CLERK_OAUTH_CLIENT_SECRET |-> Absent]
    /\ clientsFile \in FaultClientsFiles
    /\ clientReturn = <<>>
    /\ regRequests = <<>>
    /\ provisioned = <<>>
    /\ loginReport = ""
    /\ earlier = <<>>
    /\ tasks = NoTasks
    /\ apiReturn = <<>>

FaultRequests ==
    { r \in ClientRequests : r.pathname = "/callback" /\ r.error = Absent /\ r.state = "s1" }

NextFault ==
    \/ FlowNext({o \in ReceiverOptions : o.redirectUri = "http://localhost:3000/callback"},
                {r \in FlowDiscoveryResponses : r.kind = "transport"}, {"v1"},
                FaultRequests, {r \in ReceiverTokenResponses : r.kind = "ok"})
    \/ LoginNext
    \/ \E unlinkOk \in BOOLEAN : LoadTokenIO(unlinkOk) \/ ClearTokenIO(unlinkOk)
    \/ \E d \in Domains : LoadClientData(d)

FaultSpec == InitFault /\ [][NextFault]_vars

\* One run of login-auto from the resolution of the credentials to the
\* report: tokens.json may hold the token of an earlier login, clients.json
\* the registration of an earlier run
EarlierTokenFiles ==
    { <<>>,
      << StoredToken("b.example", [access_token |-> "at2", token_type |-> "Bearer",
                                   expires_in |-> MaxExpiresIn], 0) >> }

InitAttempt ==
    /\ now = 0 /\ InitDisc /\ InitFlow
    /\ tokenFile \in EarlierTokenFiles
    /\ tokenDamage = "none"
    /\ loadReturn = <<>>
    /\ clearReturn = <<>>
    /\ env \in { e \in Environments : e.CLERK_OAUTH_CLIENT_ID # ""
                                       /\ e.CLERK_OAUTH_CLIENT_SECRET = Absent }
    /\ clientsFile \in EarlierClientsFiles
    /\ clientReturn = <<>>
    /\ regRequests = <<>>
    /\ provisioned = <<>>
    /\ loginReport = ""
    /\ earlier = <<>>
    /\ tasks = NoTasks
    /\ apiReturn = <<>>

AttemptRequests ==
    { r \in ClientRequests : r.pathname = "/callback" }

NextAttempt ==
    \/ \E d \in Domains, discResp \in ProvisionDiscoveryResponses,
          regResp \in RegistrationEndpointResponses, writeOk \in BOOLEAN :
            /\ provisioned = <<>>
            /\ LoginAuto(d, discResp, regResp, writeOk)
    \/ LoginAutoFail
    \/ FlowNext(LoginOptions, ProvisionDiscoveryResponses, {"v1"}, AttemptRequests,
                ReceiverTokenResponses)
    \/ LoginNext

AttemptSpec == InitAttempt /\ [][NextAttempt]_vars

\* The interactive menu: logins of a public client one after another, each
\* with a callback that is forged, good or missing
SessionRequests ==
    { r \in ClientRequests : r.pathname = "/callback" /\ r.error = Absent }

NextSession ==
    \/ FlowNext({o \in ReceiverOptions : o.redirectUri = "http://localhost:3000/callback"},
                {r \in FlowDiscoveryResponses : r.kind = "transport"}, {"v1"},
                SessionRequests, {r \in ReceiverTokenResponses : r.kind # "transport"})
    \/ LoginNext
    \/ MainMenuLogin
    \/ EarlierTimerFire

SessionSpec == Init /\ [][NextSession]_vars

\* The task API server answering requests
NextApi ==
    \E req \in ApiRequests : ApiRequest(req)

ApiSpec == Init /\ [][NextApi]_vars

----------------------------------------------------------------------------
(* Properties of the callback receiver (Spec, FairSpec)                    *)

StateMismatch == "State mismatch - possible CSRF attack"

AuthorizationError(error) == "Authorization error: " \o error

\* The step is a run of the fetch handler (on the request lastRequest' holds)
HandlerStep == lastRequest' # <<>> /\ Request(lastRequest'[1])

\* C1: a callback on the redirect path whose state parameter is absent or is
\* not the state issued for the attempt, handled by the listening receiver,
\* makes waitForCallback reject; and an attempt whose receiver rejected never
\* sends a request to the token endpoint.
C1_StateMismatchRejects ==
    /\ [][ ( /\ Receiver = "Listening"
               /\ HandlerStep
               /\ lastRequest'[1].pathname = RedirectPath
               /\ lastRequest'[1].state # state )
             => ( /\ Receiver' = "Rejected"
                  /\ promise'.value \in
                        {StateMismatch, AuthorizationError(lastRequest'[1].error)} ) ]_vars
    /\ [](Receiver = "Rejected" => (tokenRequests = <<>> /\ pc \in {"listening", "failed"}))

C1_Witness ==
    /\ lastRequest # <<>>
    /\ lastRequest[1].pathname = RedirectPath
    /\ lastRequest[1].state \in States \ {state}
    /\ lastRequest[1].code = "c1"
    /\ lastRequest[1].error = Absent
    /\ promise = [status |-> "rejected", value |-> StateMismatch]
    /\ pc = "failed"
    /\ flowResult = << [ok |-> FALSE, error |-> StateMismatch, tokens |-> <<>>] >>
    /\ tokenRequests = <<>>

\* C2: the receiver leaves Listening for Succeeded only in a step of the
\* fetch handler on a request to the redirect path whose state is the issued
\* state and whose code is non-empty, and it resolves to that code; every
\* token request carries the code the receiver resolved to.
C2_SucceededOnlyOnMatchingCallback ==
    /\ [][ (Receiver = "Listening" /\ Receiver' = "Succeeded")
             => ( /\ HandlerStep
                  /\ lastRequest'[1].pathname = RedirectPath
                  /\ lastRequest'[1].state = state
                  /\ Truthy(lastRequest'[1].code)
                  /\ promise'.value = lastRequest'[1].code ) ]_vars
    /\ [](\A i \in DOMAIN tokenRequests :
             /\ Receiver = "Succeeded"
             /\ tokenRequests[i].body.code = promise.value
             /\ authCode = promise.value)

C2_Witness ==
    /\ Receiver = "Succeeded"
    /\ lastRequest # <<>>
    /\ lastRequest[1].pathname = RedirectPath
    /\ lastRequest[1].state = state
    /\ lastRequest[1].code = "c2"
    /\ promise.value = "c2"
    /\ Len(tokenRequests) = 1
    /\ tokenRequests[1].body.code = "c2"

\* C3: a callback on the redirect path with a non-empty error parameter,
\* handled by the listening receiver, makes it Rejected with that error string
\* in the failure, whatever the state and code parameters are; the failure
\* startOAuthFlow reports is the receiver's.
C3_ErrorRejectsWhateverState ==
    /\ [][ ( /\ Receiver = "Listening"
               /\ HandlerStep
               /\ lastRequest'[1].pathname = RedirectPath
               /\ Truthy(lastRequest'[1].error) )
             => ( /\ Receiver' = "Rejected"
                  /\ promise'.value = AuthorizationError(lastRequest'[1].error) ) ]_vars
    /\ []((Receiver = "Rejected" /\ pc = "failed")
             => flowResult = << [ok |-> FALSE, error |-> promise.value, tokens |-> <<>>] >>)

C3_Witness ==
    /\ lastRequest # <<>>
    /\ lastRequest[1].pathname = RedirectPath
    /\ lastRequest[1].error = "access_denied"
    /\ lastRequest[1].state \in States \ {state}
    /\ lastRequest[1].code = "c1"
    /\ promise = [status |-> "rejected", value |-> AuthorizationError("access_denied")]
    /\ flowResult = << [ok |-> FALSE, error |-> AuthorizationError("access_denied"),
                        tokens |-> <<>>] >>

\* C4: the listener is bound before the browser is told to open the
\* authorization URL: in no state has the browser been opened while the
\* listener of the attempt is not yet bound.
C4_ListenerBoundBeforeBrowser ==
    browserOpened => listener # "unbound"

\* C5: every waitForCallback leaves Listening: when the deadline timer fires
\* on a listening receiver it becomes TimedOut with its listener stopped, not
\* before the deadline, and startOAuthFlow then fails with the timeout.
C5_DeadlineLeavesListening ==
    /\ (Receiver = "Listening") ~> (Receiver \in Terminal)
    /\ [][ (Receiver = "Listening" /\ TimerFire)
             => (Receiver' = "TimedOut" /\ listener' = "stopped") ]_vars
    /\ [](Receiver = "TimedOut" => now >= timerDue)
    /\ (Receiver = "TimedOut")
          ~> (flowResult = << [ok |-> FALSE, error |-> "Authorization timeout",
                               tokens |-> <<>>] >>)

C5_Witness ==
    /\ Receiver = "TimedOut"
    /\ lastRequest = <<>>
    /\ listener = "stopped"
    /\ now = timerDue
    /\ pc = "failed"
    /\ flowResult = << [ok |-> FALSE, error |-> "Authorization timeout", tokens |-> <<>>] >>

\* C6: whenever the receiver has reached Succeeded, Rejected or TimedOut its
\* listener has been stopped.
C6_TerminalImpliesStopped ==
    Receiver \in Terminal => listener = "stopped"

C6_Witness ==
    /\ Receiver = "TimedOut"
    /\ listener = "stopped"
    /\ openConn
    /\ lastRequest # <<>>
    /\ lastResponse = << [status |-> 404, body |-> "Not found"] >>

\* C23: while the receiver is Listening, the first request on the redirect
\* path that the fetch handler runs on drives it to Succeeded or Rejected;
\* and after the handler has run on a request on the redirect path, the
\* listener never runs it on another one.
C23_OneMatchingRequest ==
    /\ [][ ( /\ Receiver = "Listening"
               /\ HandlerStep
               /\ lastRequest'[1].pathname = RedirectPath )
             => Receiver' \in {"Succeeded", "Rejected"} ]_vars
    /\ [][ ( /\ lastRequest # <<>>
               /\ lastRequest[1].pathname = RedirectPath
               /\ HandlerStep )
             => lastRequest'[1].pathname # RedirectPath ]_vars

\* C24: a run of the fetch handler on a request whose path is not the path
\* of the redirect URI answers 404 "Not found" and changes nothing else: the
\* promise is as it was (pending stays pending), the listener is as it was
\* (bound stays bound), the timer stays set and startOAuthFlow stays where it
\* is; and this is what the handler does with every such request, whatever
\* code, state and error parameters it carries.
C24_OtherPathIgnored ==
    /\ [][ (HandlerStep /\ lastRequest'[1].pathname # RedirectPath)
             => ( /\ lastResponse' = << [status |-> 404, body |-> "Not found"] >>
                  /\ promise' = promise
                  /\ Receiver' = Receiver
                  /\ listener' = listener
                  /\ timerArmed' = timerArmed
                  /\ pc' = pc
                  /\ authCode' = authCode ) ]_vars
    /\ [](pc # "init"
            => \A req \in Requests :
                  req.pathname # RedirectPath
                     => Handler(req, ParseURL(options.redirectUri), state) = NotFound)

\* The listening receiver answered 404 to /favicon.ico?code=c1&state=<the
\* issued state>&error=access_denied and is still listening
C24_Witness ==
    /\ Receiver = "Listening"
    /\ listener = "bound"
    /\ timerArmed
    /\ lastRequest # <<>>
    /\ lastRequest[1].pathname = "/favicon.ico"
    /\ lastRequest[1].code = "c1"
    /\ lastRequest[1].state = state
    /\ lastRequest[1].error = "access_denied"
    /\ lastResponse = << [status |-> 404, body |-> "Not found"] >>

\* C25: the outcome of waitForCallback is delivered once and is final.  Once
\* the receiver is Succeeded, Rejected or TimedOut no step (no later request,
\* no replay of the issued state, no expiry of the timer) changes the settled
\* promise; the authorization code startOAuthFlow took from it and the result
\* of startOAuthFlow never change once set; the code is the one the promise
\* resolved to; and at most one token request is ever sent.
C25_TerminalAbsorbing ==
    /\ [][ (Receiver \in Terminal) => (promise' = promise) ]_vars
    /\ [][ (authCode # Absent) => (authCode' = authCode) ]_vars
    /\ [][ (flowResult # <<>>) => (flowResult' = flowResult) ]_vars
    /\ [](authCode # Absent => (Receiver = "Succeeded" /\ authCode = promise.value))
    /\ [](Len(tokenRequests) <= 1)
    /\ [](\A i \in DOMAIN tokenRequests : tokenRequests[i].body.code = authCode)

\* The receiver succeeded with c1; afterwards the handler ran on a replay of
\* the issued state with code c2 and the timer expired: the outcome is still
\* c1 and the one token request carries c1
C25_Witness ==
    /\ Receiver = "Succeeded"
    /\ promise.value = "c1"
    /\ lastRequest # <<>>
    /\ lastRequest[1].pathname = RedirectPath
    /\ lastRequest[1].state = state
    /\ lastRequest[1].code = "c2"
    /\ lastRequest[1].error = Absent
    /\ ~timerArmed
    /\ now >= timerDue
    /\ Len(tokenRequests) = 1
    /\ tokenRequests[1].body.code = "c1"

\* C19: when the fetch handler answers a callback on the redirect path whose
\* state is not the issued state (and that carries no error), the response it
\* sends and the failure waitForCallback rejects with are the ones it would
\* produce for any other issued state the callback does not match; and the
\* failure startOAuthFlow reports is that rejection.
C19_MismatchOutputIndependentOfState ==
    /\ [][ ( /\ HandlerStep
               /\ lastRequest'[1].pathname = RedirectPath
               /\ ~Truthy(lastRequest'[1].error)
               /\ lastRequest'[1].state # state )
             => \A other \in States \ {lastRequest'[1].state} :
                   LET h == Handler(lastRequest'[1], ParseURL(options.redirectUri), other) IN
                   /\ lastResponse' = << [status |-> h.status, body |-> h.body] >>
                   /\ Receiver = "Listening"
                         => promise' = [status |-> h.settle, value |-> h.value] ]_vars
    /\ []((Receiver = "Rejected" /\ pc = "failed") => flowResult[1].error = promise.value)

C19_Witness ==
    /\ lastRequest # <<>>
    /\ lastRequest[1].pathname = RedirectPath
    /\ lastRequest[1].state = Absent
    /\ lastRequest[1].code = "c2"
    /\ lastRequest[1].error = Absent
    /\ lastResponse = << [status |-> 400,
                          body |-> "State mismatch. You can close this window."] >>
    /\ promise = [status |-> "rejected", value |-> StateMismatch]
    /\ flowResult # <<>>
    /\ flowResult[1].error = StateMismatch

----------------------------------------------------------------------------
(* Properties of the token exchange (ClientSpec)                           *)

\* C7: the body of every token request holds exactly one of client_secret and
\* code_verifier: the client secret when the client has one, the verifier of
\* the attempt when it has none.
C7_ExactlyOneOfSecretAndVerifier ==
    \A i \in DOMAIN tokenRequests :
        LET body == tokenRequests[i].body IN
        /\ (body.client_secret # Absent) # (body.code_verifier # Absent)
        /\ IF Truthy(options.clientSecret)
           THEN body.client_secret = options.clientSecret /\ body.code_verifier = Absent
           ELSE /\ body.client_secret = Absent
                /\ body.code_verifier = codeVerifier
                /\ codeVerifier \in Verifiers

C7_Witness ==
    /\ Len(tokenRequests) = 1
    /\ options.clientSecret = ""
    /\ tokenRequests[1].body.code_verifier = "v2"
    /\ tokenRequests[1].body.client_secret = Absent

\* C22: within one login attempt PKCE and the client secret exclude each
\* other and are used consistently.  The authorization URL carries
\* code_challenge and code_challenge_method=S256 if and only if the client has
\* no secret; and a token request carries code_verifier if and only if the
\* authorization URL of the attempt carried a code_challenge, which is then
\* the challenge derived from that verifier, and carries client_secret if and
\* only if the URL carried none.
C22_PkceXorSecret ==
    /\ authUrl # <<>>
          => LET u == authUrl[1] IN
             /\ (u.code_challenge # Absent) <=> ~Truthy(options.clientSecret)
             /\ (u.code_challenge_method = "S256") <=> ~Truthy(options.clientSecret)
             /\ u.code_challenge_method \in {Absent, "S256"}
             /\ u.code_challenge # Absent
                   => u.code_challenge = generateCodeChallenge(codeVerifier)
    /\ \A i \in DOMAIN tokenRequests :
          LET body == tokenRequests[i].body
              u    == authUrl[1]
          IN  /\ authUrl # <<>>
              /\ (body.code_verifier # Absent) <=> (u.code_challenge # Absent)
              /\ (body.code_verifier # Absent)
                    <=> (u.code_challenge = generateCodeChallenge(body.code_verifier))
              /\ (body.client_secret # Absent) <=> (u.code_challenge = Absent)

\* A public client (no secret) sent its token request: the URL carried the
\* S256 challenge of v1 and the request carries v1 and no secret
C22_Witness ==
    /\ Len(tokenRequests) = 1
    /\ options.clientSecret = Absent
    /\ authUrl[1].code_challenge = generateCodeChallenge("v1")
    /\ authUrl[1].code_challenge_method = "S256"
    /\ tokenRequests[1].body.code_verifier = "v1"
    /\ tokenRequests[1].body.client_secret = Absent

----------------------------------------------------------------------------
(* Properties of the token store (StoreSpec)                               *)

\* The validity of a TokenRecord: now < stored_at + lifetime
RecordValid(token, t) ==
    t < getTime(token.stored_at) + token.expires_in * MsPerSecond

\* C8: loadToken returns the stored record if and only if
\* now < stored_at + expires_in; at now = stored_at + expires_in it returns none.
C8_LoadReturnsIffValid ==
    (loadReturn # <<>> /\ loadReturn[1].found # <<>>)
        => ( loadReturn[1].value = loadReturn[1].found
               <=> RecordValid(loadReturn[1].found[1], loadReturn[1].at) )

\* C9: a loadToken that finds a record that is no longer valid returns none
\* and leaves the store empty; a record that is no longer valid is never
\* returned.
C9_ExpiredRecordPurged ==
    [][ (LoadToken /\ tokenFile # <<>> /\ ~RecordValid(tokenFile[1], now))
          => (loadReturn'[1].value = <<>> /\ tokenFile' = <<>>) ]_vars

\* C17: tokens.json holds at most one record.  A saveToken leaves exactly its
\* own record there, whatever domain the record before was for; a clearToken
\* leaves none; nothing else puts a record there; and loadToken returns the
\* record it finds if that record is still valid, none otherwise.
C17_SingleRecordStore ==
    /\ [](Len(tokenFile) <= 1)
    /\ [][ \A d \in Domains, token \in TokenResponses :
              SaveToken(d, token) => tokenFile' = << StoredToken(d, token, now) >> ]_vars
    /\ [][ ClearToken => tokenFile' = <<>> ]_vars
    /\ [][ tokenFile' # tokenFile
              => \/ ClearToken \/ LoadToken
                 \/ \E d \in Domains, token \in TokenResponses : SaveToken(d, token) ]_vars
    /\ [][ LoadToken
              => loadReturn'[1].value =
                    IF tokenFile # <<>> /\ RecordValid(tokenFile[1], now)
                    THEN tokenFile ELSE <<>> ]_vars

----------------------------------------------------------------------------
(* Properties of the metadata resolver (DiscSpec)                          *)

\* C10: whatever the discovery request meets, discoverOpenIDConfiguration
\* returns, without throwing, a configuration whose issuer,
\* authorization_endpoint, token_endpoint and userinfo_endpoint are present
\* and non-empty.
C10_ResolveAlwaysComplete ==
    discReturn # <<>>
        => /\ ~discReturn[1].threw
           /\ \A i \in 1..Len(requiredFields) :
                 Truthy(discReturn[1].config[requiredFields[i]])

C10_Witness ==
    /\ discReturn # <<>>
    /\ discReturn[1].fellBack
    /\ discReturn[1].domain = "b.example"
    /\ discReturn[1].config.token_endpoint = "https://b.example/oauth/token"
    /\ "acme.example" \in DOMAIN configCache
    /\ configCache["acme.example"].config.token_endpoint = "https://idp.example/token"

\* C11: in every state, a discoverOpenIDConfiguration call for a domain that
\* has a cache entry younger than 24 hours returns that entry's configuration,
\* sends no request and leaves the cache alone; once the entry is 24 hours old
\* or older the call sends exactly one discovery request, whatever it meets.
C11_CachedWithin24Hours ==
    \A d \in DOMAIN configCache : \A resp \in DiscoveryResponses :
        LET r == discoverOpenIDConfiguration(configCache, d, now, resp) IN
        IF now - configCache[d].timestamp < CACHE_DURATION
        THEN /\ r.fetches = 0
             /\ r.config = configCache[d].config
             /\ r.cache = configCache
        ELSE r.fetches = 1

\* The entry of acme.example is exactly 24 hours old and the last call, for
\* that domain, sent one request (which failed, so the old entry is still there)
C11_Witness ==
    /\ "acme.example" \in DOMAIN configCache
    /\ configCache["acme.example"].timestamp = 0
    /\ now = CACHE_DURATION
    /\ discReturn # <<>>
    /\ discReturn[1].domain = "acme.example"
    /\ discReturn[1].fetches = 1
    /\ discReturn[1].fellBack

\* C20: in every state, a discoverOpenIDConfiguration call for a domain D whose
\* request fails (the fetch rejects, the status is not 2xx, the body is not
\* JSON, or a required field is missing or empty) returns the endpoints
\* https://D/oauth/authorize, /oauth/token, /oauth/userinfo,
\* /.well-known/jwks.json and /oauth/register, and the same configuration as
\* any other failed call for D.
C20_FallbackBuiltFromDomain ==
    \A d \in Domains : \A resp \in DiscoveryResponses :
        LET failed == \/ resp.kind # "json"
                      \/ \E i \in 1..Len(requiredFields) : ~Truthy(resp.body[requiredFields[i]])
            stale  == d \notin DOMAIN configCache
                         \/ now - configCache[d].timestamp >= CACHE_DURATION
            r      == discoverOpenIDConfiguration(configCache, d, now, resp)
            other  == discoverOpenIDConfiguration(NoCache, d, 0,
                                                  [kind |-> "transport", body |-> NoBody])
        IN (failed /\ stale) =>
             /\ ~r.threw
             /\ r.config.authorization_endpoint = "https://" \o d \o "/oauth/authorize"
             /\ r.config.token_endpoint         = "https://" \o d \o "/oauth/token"
             /\ r.config.userinfo_endpoint      = "https://" \o d \o "/oauth/userinfo"
             /\ r.config.jwks_uri               = "https://" \o d \o "/.well-known/jwks.json"
             /\ r.config.registration_endpoint  = "https://" \o d \o "/oauth/register"
             /\ r.config = other.config

\* A failed call for b.example returned the fallback while a stale entry with
\* the provider's own endpoints was cached for that domain
C20_Witness ==
    /\ discReturn # <<>>
    /\ discReturn[1].domain = "b.example"
    /\ discReturn[1].fellBack
    /\ discReturn[1].config.registration_endpoint = "https://b.example/oauth/register"
    /\ "b.example" \in DOMAIN configCache
    /\ configCache["b.example"].config.authorization_endpoint = "https://idp.example/authorize"
    /\ now - configCache["b.example"].timestamp >= CACHE_DURATION

\* C29: a failed discovery leaves the cache as it was.  A resolve that fell
\* back changed no cache entry; in every state, a call that falls back returns
\* the cache it was given, a call changes the cache only by storing under its
\* domain a fetched configuration that has every required field, and a call
\* for a domain without a fresh entry sends one discovery request; and every
\* cached configuration has every required field and is not the fallback
\* record of its domain.
C29_FailedDiscoveryNotCached ==
    /\ [][ (discReturn' # discReturn /\ discReturn'[1].fellBack)
             => configCache' = configCache ]_vars
    /\ [](\A d \in Domains, resp \in DiscoveryResponses :
            LET r == discoverOpenIDConfiguration(configCache, d, now, resp) IN
            /\ r.fellBack => r.cache = configCache
            /\ r.fellBack <=> (~CacheFresh(configCache, d, now) /\ DiscoveryTry(resp).threw)
            /\ r.cache # configCache
                  => /\ resp.kind = "json"
                     /\ FirstMissing(resp.body) = 0
                     /\ r.cache = CachePut(configCache, d,
                                           [config |-> resp.body, timestamp |-> now])
            /\ ~CacheFresh(configCache, d, now) => r.fetches = 1)
    /\ [](\A d \in DOMAIN configCache :
            /\ \A i \in 1..Len(requiredFields) :
                  Truthy(configCache[d].config[requiredFields[i]])
            /\ configCache[d].config # getDefaultClerkConfiguration(d))

\* A resolve for acme.example, which has no cache entry, failed and fell back
\* after one request: acme.example still has no entry, and the entry of
\* b.example is there as before
C29_Witness ==
    /\ discReturn # <<>>
    /\ discReturn[1].domain = "acme.example"
    /\ discReturn[1].fellBack
    /\ discReturn[1].fetches = 1
    /\ discReturn[1].config = getDefaultClerkConfiguration("acme.example")
    /\ DOMAIN configCache = {"b.example"}
    /\ configCache["b.example"].timestamp = 0
    /\ now = 1

----------------------------------------------------------------------------
(* Properties of the login commands (ClientSpec)                           *)

\* C14: when the token endpoint answers with a status that is not 2xx,
\* exchangeCodeForToken throws an error that carries the body of the answer,
\* and startOAuthFlow fails with it and returns no tokens; a failed
\* startOAuthFlow never holds tokens and is never turned into a success.
C14_NonOkExchangeFails ==
    /\ [][ \A resp \in TokenEndpointResponses :
              (resp.kind = "status" /\ ExchangeCodeForToken(resp))
                 => /\ pc' = "failed"
                    /\ flowResult' = << [ok |-> FALSE,
                                         error |-> "Token exchange failed: " \o resp.text,
                                         tokens |-> <<>>] >> ]_vars
    /\ [](pc = "failed" => (flowResult # <<>> /\ ~flowResult[1].ok
                              /\ flowResult[1].tokens = <<>> /\ loginReport # "success"))
    /\ [][pc = "failed" => (pc' = "failed" /\ flowResult' = flowResult)]_vars

C14_Witness ==
    /\ pc = "failed"
    /\ Len(tokenRequests) = 1
    /\ flowResult = << [ok |-> FALSE,
                        error |-> "Token exchange failed: {error:invalid_client}",
                        tokens |-> <<>>] >>
    /\ loginReport = "failed"
    /\ tokenFile = <<>>

\* C16: whenever tokens.json holds a record, the record has its access token,
\* its token type, its expires_in, its domain and its stored_at, whatever
\* body the token endpoint sent with its 2xx answer.
C16_NoPartialTokenRecord ==
    tokenFile # <<>>
        => /\ tokenFile[1].access_token # Absent
           /\ tokenFile[1].token_type # Absent
           /\ tokenFile[1].expires_in # AbsentNumber
           /\ tokenFile[1].domain # Absent
           /\ getTime(tokenFile[1].stored_at) >= 0

\* C18: the PKCE verifier of an attempt is the value of no parameter of the
\* authorization URL, is not the body of any response of the listener, is no
\* field of the record in tokens.json or of a registration in clients.json,
\* and is in no registration request; in a token request it is the
\* code_verifier parameter and nothing else.
C18_VerifierOnlyInTokenRequest ==
    codeVerifier \in Verifiers =>
        /\ authUrl # <<>> => \A f \in DOMAIN authUrl[1] : authUrl[1][f] # codeVerifier
        /\ lastResponse # <<>> => lastResponse[1].body # codeVerifier
        /\ tokenFile # <<>> =>
              /\ tokenFile[1].access_token # codeVerifier
              /\ tokenFile[1].token_type # codeVerifier
              /\ tokenFile[1].domain # codeVerifier
        /\ \A d \in DOMAIN clientsFile.data :
              \A f \in DOMAIN clientsFile.data[d] : clientsFile.data[d][f] # codeVerifier
        /\ \A i \in DOMAIN regRequests :
              /\ regRequests[i].endpoint # codeVerifier
              /\ \A f \in {"client_name", "token_endpoint_auth_method", "application_type",
                            "scope"} : regRequests[i].body[f] # codeVerifier
              /\ \A f \in {"redirect_uris", "grant_types", "response_types"} :
                    \A j \in DOMAIN regRequests[i].body[f] :
                        regRequests[i].body[f][j] # codeVerifier
        /\ \A i \in DOMAIN tokenRequests :
              /\ tokenRequests[i].endpoint # codeVerifier
              /\ \A f \in (DOMAIN tokenRequests[i].body) \ {"code_verifier"} :
                    tokenRequests[i].body[f] # codeVerifier

C18_Witness ==
    /\ codeVerifier = "v2"
    /\ authUrl # <<>>
    /\ authUrl[1].code_challenge = "S256(v2)"
    /\ lastResponse # <<>>
    /\ lastResponse[1].status = 200
    /\ Len(tokenRequests) = 1
    /\ tokenRequests[1].body.code_verifier = "v2"
    /\ tokenFile # <<>>
    /\ loginReport = "success"

----------------------------------------------------------------------------
(* Properties of the client registration (ProvisionSpec)                   *)

RegistrationUnsupported == "OAuth provider does not support dynamic client registration"

\* C13: in every state, a registerClient call whose resolved metadata has no
\* registration_endpoint throws the registration-unsupported error, sends no
\* request to a registration endpoint and leaves clients.json as it is; and a
\* login that ended with that error sent no registration request.
C13_NoRegistrationEndpoint ==
    /\ \A d \in Domains, discResp \in ProvisionDiscoveryResponses,
          regResp \in RegistrationEndpointResponses, writeOk \in BOOLEAN :
          LET cfg == discoverOpenIDConfiguration(configCache, d, now, discResp).config
              r   == registerClient(configCache, clientsFile, d, now, discResp, regResp, writeOk)
          IN  ~Truthy(cfg.registration_endpoint)
                 => /\ r.threw
                    /\ r.error = RegistrationUnsupported
                    /\ r.requests = <<>>
                    /\ r.file = clientsFile
    /\ (provisioned # <<>> /\ provisioned[1].error = RegistrationUnsupported)
          => provisioned[1].posts = 0 /\ provisioned[1].registered = <<>>

\* login-auto for acme.example, whose cached metadata has no registration
\* endpoint, ended with the error: nothing was posted, nothing was written
C13_Witness ==
    /\ provisioned # <<>>
    /\ provisioned[1].command = "login-auto"
    /\ provisioned[1].domain = "acme.example"
    /\ provisioned[1].error = RegistrationUnsupported
    /\ ~provisioned[1].started
    /\ "acme.example" \in DOMAIN configCache
    /\ configCache["acme.example"].config.registration_endpoint = Absent
    /\ regRequests = <<>>
    /\ clientsFile = NoClientsFile

\* The client ID and the client secret a started login passes to
\* startOAuthFlow are both those of clientData
SameSource(p, clientData) ==
    /\ p.clientId = clientData.client_id
    /\ p.clientSecret = clientData.client_secret

\* C12: a login that goes on to startOAuthFlow (without a typed client ID)
\* takes its client ID and its client secret from the same source, the first
\* of: the environment when it has a client ID, then neither reading
\* clients.json nor sending a registration request; the registration
\* clients.json holds for that very domain, then sending no registration
\* request; the registration that registerClient obtained.
C12_CredentialsFromOneSource ==
    /\ (provisioned # <<>> /\ provisioned[1].started /\ provisioned[1].typed = Absent)
          => LET p == provisioned[1] IN
             IF Truthy(env.CLERK_OAUTH_CLIENT_ID)
             THEN /\ SameSource(p, [client_id |-> env.CLERK_OAUTH_CLIENT_ID,
                                    client_secret |-> env.CLERK_OAUTH_CLIENT_SECRET])
                  /\ p.loads = 0 /\ p.posts = 0 /\ p.saved = <<>> /\ p.registered = <<>>
             ELSE IF p.saved # <<>>
             THEN /\ SameSource(p, p.saved[1])
                  /\ p.posts = 0 /\ p.registered = <<>>
             ELSE /\ p.registered # <<>>
                  /\ SameSource(p, p.registered[1])
                  /\ p.posts = 1
    /\ \A d \in Domains, discResp \in ProvisionDiscoveryResponses,
          regResp \in RegistrationEndpointResponses, writeOk \in BOOLEAN :
          LET c == resolveClientData(env, configCache, clientsFile, d, now,
                                     discResp, regResp, writeOk)
          IN  /\ Truthy(env.CLERK_OAUTH_CLIENT_ID) => (c.loads = 0 /\ c.requests = <<>>)
              /\ ( /\ ~Truthy(env.CLERK_OAUTH_CLIENT_ID)
                   /\ clientsFile.kind = "json"
                   /\ d \in DOMAIN clientsFile.data )
                    => /\ c.saved = << clientsFile.data[d] >>
                       /\ c.clientData = clientsFile.data[d]
                       /\ c.requests = <<>>
              /\ ( /\ ~Truthy(env.CLERK_OAUTH_CLIENT_ID)
                   /\ clientsFile.kind = "json" => d \notin DOMAIN clientsFile.data )
                    => (c.saved = <<>> /\ (c.threw \/ c.registered = << regResp.json >>))

\* After a registerClient call that ended as r for the domain: clients.json
\* holds clientData under the domain, and a login for the domain without a
\* client ID in the environment takes clientData from clients.json, sends no
\* registration request and writes nothing, whatever the provider would answer
RegistrationReused(r, domain, clientData, t) ==
    /\ loadClientData(r.file, domain).value = << clientData >>
    /\ \A e \in Environments, discResp \in ProvisionDiscoveryResponses,
          regResp \in RegistrationEndpointResponses :
          ~Truthy(e.CLERK_OAUTH_CLIENT_ID)
             => LET c == resolveClientData(e, r.cache, r.file, domain, t,
                                           discResp, regResp, TRUE)
                IN  /\ ~c.threw
                    /\ c.saved = << clientData >>
                    /\ c.clientData = clientData
                    /\ c.registered = <<>>
                    /\ c.requests = <<>>
                    /\ c.file = r.file

\* The clients.json a call may find: the one of the state, or one that has
\* become corrupt or unreadable
ClientsFilesMet ==
    {clientsFile} \cup { f \in FaultClientsFiles : f.kind \in {"corrupt", "unreadable"} }

----------------------------------------------------------------------------
(* Properties of one run of login-auto (AttemptSpec)                       *)

\* The discovery requests of the login when startOAuthFlow is about to be
\* called and its discovery request (if it sends one) meets resp: those the
\* resolution of the credentials sent and those startOAuthFlow sends
DiscoveryRequestsOfLogin(resp) ==
    provisioned[1].fetches
       + discoverOpenIDConfiguration(configCache, provisioned[1].domain, now, resp).fetches

\* C26: no request to the provider is repeated.  Within one login the
\* resolution of the credentials sends at most one discovery request and at
\* most one registration request, startOAuthFlow sends at most one discovery
\* request and at most one token request, and a login whose registration
\* failed sends nothing more; the login sends a second discovery request
\* only when it registered a client after a discovery that failed, so that
\* startOAuthFlow found no cache entry.
C26_NoRequestRepeated ==
    /\ Len(regRequests) <= 1
    /\ Len(tokenRequests) <= 1
    /\ provisioned # <<>>
          => /\ provisioned[1].fetches <= 1
             /\ provisioned[1].posts = Len(regRequests)
             /\ ~provisioned[1].started => (pc = "init" /\ tokenRequests = <<>>)
    /\ \A d \in Domains, resp \in ProvisionDiscoveryResponses :
          discoverOpenIDConfiguration(configCache, d, now, resp).fetches <= 1
    /\ (pc = "init" /\ LoginOptions # {})
          => \A resp \in ProvisionDiscoveryResponses :
                /\ DiscoveryRequestsOfLogin(resp) <= 2
                /\ DiscoveryRequestsOfLogin(resp) = 2
                      => /\ provisioned[1].registered # <<>>
                         /\ provisioned[1].domain \notin DOMAIN configCache

\* login-auto registered a client after a discovery that failed, and the
\* token endpoint then refused the code: one registration request and one
\* token request were sent, and the login has failed
C26_Witness ==
    /\ provisioned # <<>>
    /\ provisioned[1].fetches = 1
    /\ provisioned[1].posts = 1
    /\ provisioned[1].domain \notin DOMAIN configCache
    /\ config = getDefaultClerkConfiguration(provisioned[1].domain)
    /\ Len(regRequests) = 1
    /\ Len(tokenRequests) = 1
    /\ pc = "failed"
    /\ flowResult # <<>>
    /\ flowResult[1].error = "Token exchange failed: invalid_grant"
    /\ loginReport = "failed"

\* C26 as stated: within one login the discovery request, the registration
\* request and the token request are each sent at most once
C26_EachRequestOnce ==
    /\ Len(regRequests) <= 1
    /\ Len(tokenRequests) <= 1
    /\ (pc = "init" /\ LoginOptions # {})
          => \A resp \in ProvisionDiscoveryResponses : DiscoveryRequestsOfLogin(resp) <= 1

\* C27: a login that fails leaves tokens.json as it was.  tokens.json changes
\* only in the step in which the login command, startOAuthFlow having
\* returned a token, calls saveToken and reports success; the step in which a
\* failure is reported changes nothing of the token store; and when a login
\* has failed (the receiver rejected or timed out, or the token endpoint
\* refused the code, or the registration failed) tokens.json is what it was
\* when the process started.
C27_FailedLoginKeepsToken ==
    /\ [][ (tokenFile' # tokenFile \/ tokenDamage' # tokenDamage)
             => ( /\ pc = "done"
                  /\ flowResult # <<>>
                  /\ flowResult[1].ok
                  /\ tokenFile' = << StoredToken(options.domain, flowResult[1].tokens[1], now) >>
                  /\ loginReport = ""
                  /\ loginReport' = "success" ) ]_vars
    /\ [][ (loginReport' # loginReport /\ loginReport' = "failed")
             => (tokenFile' = tokenFile /\ tokenDamage' = tokenDamage) ]_vars
    /\ []((pc = "failed" \/ loginReport = "failed")
             => (tokenFile \in EarlierTokenFiles /\ tokenDamage = "none"))
    /\ [](pc = "failed" => (flowResult # <<>> /\ ~flowResult[1].ok))

\* tokens.json held the token of an earlier login for b.example; a login
\* whose code the token endpoint refused has failed and the token is still
\* there
C27_Witness ==
    /\ loginReport = "failed"
    /\ pc = "failed"
    /\ Receiver = "Succeeded"
    /\ flowResult = << [ok |-> FALSE, error |-> "Token exchange failed: invalid_grant",
                        tokens |-> <<>>] >>
    /\ tokenFile # <<>>
    /\ tokenFile[1].access_token = "at2"
    /\ tokenFile[1].domain = "b.example"

----------------------------------------------------------------------------
(* Properties of the logins of one process (SessionSpec)                   *)

\* The step is a run of the setTimeout callback of an earlier attempt
EarlierTimerStep ==
    /\ Len(earlier') = Len(earlier)
    /\ \E i \in DOMAIN earlier : earlier[i].timerArmed /\ ~earlier'[i].timerArmed

\* C28: the timer of an attempt is never cancelled, and when it fires after
\* its attempt has ended it touches that attempt only.  A timer stops being
\* pending only by firing at or after its deadline, and the timer of an
\* attempt that ended is still pending when the next login begins; the run
\* of an earlier attempt's timer leaves the server, the promise, the timer
\* and the position of the current attempt as they are; the current attempt
\* is TimedOut only at or after its own deadline, and while it is Listening
\* its server is bound.
C28_EarlierTimerHarmless ==
    /\ [][ EarlierTimerStep
             => ( /\ listener' = listener
                  /\ promise' = promise
                  /\ timerArmed' = timerArmed
                  /\ timerDue' = timerDue
                  /\ pc' = pc
                  /\ flowResult' = flowResult
                  /\ loginReport' = loginReport
                  /\ tokenFile' = tokenFile ) ]_vars
    /\ [][ \A i \in DOMAIN earlier :
              (earlier[i].timerArmed /\ ~earlier'[i].timerArmed)
                 => now >= earlier[i].timerDue ]_vars
    /\ [][ (timerArmed /\ ~timerArmed')
             => \/ now >= timerDue
                \/ /\ Len(earlier') = Len(earlier) + 1
                   /\ earlier'[Len(earlier')].timerArmed
                   /\ earlier'[Len(earlier')].timerDue = timerDue ]_vars
    /\ [](Receiver = "TimedOut" => now >= timerDue)
    /\ [](Receiver = "Listening" => (listener = "bound" /\ timerArmed))

\* The first login ended early on a forged callback; the second login began
\* before the first timer was due; that timer has fired since, and the
\* second login is still listening, its own deadline not reached
C28_Witness ==
    /\ Len(earlier) = 1
    /\ earlier[1].promise = [status |-> "rejected", value |-> StateMismatch]
    /\ ~earlier[1].timerArmed
    /\ now >= earlier[1].timerDue
    /\ Receiver = "Listening"
    /\ listener = "bound"
    /\ timerArmed
    /\ now < timerDue

----------------------------------------------------------------------------
(* Properties of the persistence failure policy (FaultSpec)                *)

\* C15: no failure of the files propagates.  loadToken, clearToken and
\* loadClientData never throw; on a tokens.json that is missing, unreadable or
\* corrupt loadToken returns none and changes nothing, and on a clients.json
\* that is missing, unreadable or corrupt loadClientData returns none; a
\* clearToken whose unlink fails or finds no file changes nothing; and the
\* login command reports success after saveToken whether or not the write
\* succeeded, a failed write leaving tokens.json as it was.
C15_PersistenceFailuresSwallowed ==
    /\ [](loadReturn # <<>> => ~loadReturn[1].threw)
    /\ [](clearReturn # <<>> => ~clearReturn[1].threw)
    /\ [](clientReturn # <<>>
            => /\ ~clientReturn[1].threw
               /\ clientsFile.kind # "json" => clientReturn[1].value = <<>>)
    /\ [][ \A unlinkOk \in BOOLEAN :
              (LoadTokenIO(unlinkOk) /\ tokenFile = <<>>)
                 => /\ loadReturn'[1].value = <<>>
                    /\ tokenFile' = tokenFile /\ tokenDamage' = tokenDamage ]_vars
    /\ [][ (ClearTokenIO(FALSE) \/ (ClearTokenIO(TRUE) /\ tokenFile = <<>> /\ tokenDamage = "none"))
              => (tokenFile' = tokenFile /\ tokenDamage' = tokenDamage) ]_vars
    /\ [][ \A writeOk \in BOOLEAN :
              LoginSave(writeOk)
                 => /\ loginReport' = "success"
                    /\ ~writeOk => (tokenFile' = tokenFile /\ tokenDamage' = tokenDamage) ]_vars
    /\ []((pc = "done" /\ loginReport # "") => loginReport = "success")

\* After a successful login whose write failed on a corrupt tokens.json:
\* loadToken returned none, a clearToken whose unlink failed did not throw,
\* and loadClientData on a corrupt clients.json returned none
C15_Witness ==
    /\ pc = "done"
    /\ loginReport = "success"
    /\ tokenFile = <<>>
    /\ tokenDamage = "corrupt"
    /\ loadReturn # <<>>
    /\ loadReturn[1].value = <<>>
    /\ clearReturn # <<>>
    /\ clientsFile.kind = "corrupt"
    /\ clientReturn # <<>>
    /\ clientReturn[1].value = <<>>

----------------------------------------------------------------------------
(* Properties of the task API (ApiSpec)                                    *)

\* The user Clerk says a request comes from, Absent when it names none
Requester(req) == IF req.auth.kind = "user" THEN req.auth.userId ELSE Absent

\* The rows of the table a response shows
RowsShown(req, r) ==
    IF req.route = "list" /\ r.status = 200 THEN r.body
    ELSE IF req.route \in {"get", "update"} /\ r.status = 200 THEN {r.body}
    ELSE IF req.route = "create" /\ r.status = 201 THEN {r.body}
    ELSE {}

\* Answering req with r on the table db touched the requester's rows only
Isolated(db, req, r) ==
    LET who == Requester(req)
    IN  /\ \A id \in DOMAIN db :
              db[id].user_id # who => id \in DOMAIN r.db /\ r.db[id] = db[id]
        /\ \A id \in DOMAIN r.db \ DOMAIN db : r.db[id].user_id = who
        /\ \A id \in DOMAIN r.db \cap DOMAIN db : r.db[id].user_id = db[id].user_id
        /\ \A row \in RowsShown(req, r) : row.user_id = who
        /\ who = Absent => r.status = 401 /\ r.db = db
        /\ (who # Absent /\ req.taskId \in DOMAIN db /\ db[req.taskId].user_id # who)
              => r.status = 404 /\ r.db = db

\* C31: whatever the table holds, every /api/tasks route (list, get, create,
\* update, delete) shows, adds, changes and deletes only rows whose user_id
\* is the authenticated user's id; a request naming another user's task is
\* answered 404 and a request that is not authenticated 401, and both leave
\* the table as it was.
C31_UsersIsolated ==
    \A req \in ApiRequests :
        \A uuid \in (IF req.route = "create" THEN TaskIds \ DOMAIN tasks ELSE {Absent}) :
            Isolated(tasks, req, app(tasks, req, uuid, now))

\* user_a asked to delete, and then to change, a task of user_b: the answer
\* was 404 and the task is still there
C31_Witness ==
    /\ apiReturn # <<>>
    /\ apiReturn[1].req.route \in {"delete", "update"}
    /\ apiReturn[1].req.auth = [kind |-> "user", userId |-> "user_a"]
    /\ apiReturn[1].status = 404
    /\ apiReturn[1].req.taskId \in DOMAIN tasks
    /\ tasks[apiReturn[1].req.taskId].user_id = "user_b"
    /\ \E id \in DOMAIN tasks : tasks[id].user_id = "user_a"

====
